---- MODULE Spec2Model ----
(***************************************************************************)
(* Model of the dice-fidget loot scheduler (assets/loot.js, the version    *)
(* that delegates to the physics module) and of the part of the physics    *)
(* module (assets/physics.js) the scheduler calls into.                    *)
(*                                                                         *)
(* Time is kept in tenths of a millisecond so that the drop interval       *)
(* 150 - 1.2 * n is an integer.  Roll values Math.random() * 100 are kept  *)
(* in quarters of a percent (0..399) so that every weight (the smallest is *)
(* 0.5) and every bracket boundary is an integer and every bracket has an  *)
(* interior point.                                                         *)
(***************************************************************************)
EXTENDS Integers, Sequences, FiniteSets, TLC

----------------------------------------------------------------------------
(* Bounds of the model *)

\* total number of spawnLoot / spawnConsolationLoot calls in one behaviour
MaxCalls == 3
\* largest rollResult passed to spawnLoot
MaxRoll == 1
\* number of triggerGoodbye calls in one behaviour
MaxGoodbyes == 2
\* number of spawn calls in a behaviour that also runs the Goodbye Sequence
MaxGoodbyeCalls == 1
\* largest rollResult when one batch is followed to its end
MaxBatchRoll == 3
\* number of direct spawnCube calls in one behaviour
MaxCubes == 2
\* spawnCube calls made to fill the bucket
MaxImpactCubes == 13
\* spawnParticles and spawnSparkles calls
MaxParticleCalls == 2

----------------------------------------------------------------------------
(* Program constants *)

TIER_TRASH == 7
TIER_ZZZ == 6

Tiers == 1..7

\* units per percent of the roll scale
RollScale == 4
\* Math.random() * 100 on the quarter-percent grid
RollValues == 0..(100 * RollScale - 1)

\* variant: the d4 weights 0.5 and 47.5 truncated to whole percents
RARITY_WEIGHTS_Truncated ==
  [d \in {4, 6, 8, 10, 12, 20, 100} |->
     CASE d = 4   -> <<0, 4, 12, 32, 60, 100, 188>>
       [] d = 6   -> <<4, 8, 20, 40, 68, 100, 160>>
       [] d = 8   -> <<8, 12, 28, 52, 80, 100, 120>>
       [] d = 10  -> <<12, 20, 40, 64, 88, 96, 80>>
       [] d = 12  -> <<16, 28, 48, 72, 92, 84, 60>>
       [] d = 20  -> <<24, 36, 56, 80, 88, 68, 48>>
       [] d = 100 -> <<40, 48, 64, 80, 72, 56, 40>>]

\* RARITY_WEIGHTS in quarter-percent units (weight * 4)
RARITY_WEIGHTS ==
  [d \in {4, 6, 8, 10, 12, 20, 100} |->
     CASE d = 4   -> <<2, 4, 12, 32, 60, 100, 190>>
       [] d = 6   -> <<4, 8, 20, 40, 68, 100, 160>>
       [] d = 8   -> <<8, 12, 28, 52, 80, 100, 120>>
       [] d = 10  -> <<12, 20, 40, 64, 88, 96, 80>>
       [] d = 12  -> <<16, 28, 48, 72, 92, 84, 60>>
       [] d = 20  -> <<24, 36, 56, 80, 88, 68, 48>>
       [] d = 100 -> <<40, 48, 64, 80, 72, 56, 40>>]

\* timing, in tenths of a millisecond
BASE_DROP_INTERVAL_MS == 1500
MIN_DROP_INTERVAL_MS == 300
\* 1.2 ms per drop, in tenths of a millisecond
DROP_INTERVAL_SLOPE == 12
\* the settle delay of a spawned drop (100 ms)
SETTLE_DELAY == 1000
\* the delay after which announce clears its message (1000 ms)
ANNOUNCE_CLEAR_DELAY == 10000
\* processDrops announces a best tier of 5 or better
ANNOUNCE_MAX_TIER == 5

\* frame time, in thirds of a millisecond
TimeScale == 3
\* 50 ms
DELTA_CAP_MS == 150
\* 1/60 s
PHYSICS_TIMESTEP == 50
MAX_SUBSTEPS == 4
MAX_IMPACTS == 50
\* the alpha of a fresh impact mark (1), in units of 1/3000
ALPHA_ONE == 3000
\* 0.004 per millisecond, in alpha units per third of a millisecond
IMPACT_FADE_RATE == 4
PIXELS_PER_METER == 80
\* positions, in units of 1/160 m
PosScale == 160
SCREEN_EDGE_PADDING == 10
\* 0.5, as the divisor of a velocity
BOUNCE_DAMPING == 2
\* PARTICLE_MAGNITUDE.count and PARTICLE_MAGNITUDE.scanlines
PARTICLE_COUNT == 20
PARTICLE_SCANLINES == 2

----------------------------------------------------------------------------
(* Inputs *)

\* die sizes passed by callers: the seven tabled sizes and one without a table
DieSizes == {4, 6, 8, 10, 12, 20, 100, 7}
\* die sizes and roll values used while several batches interleave
SchedDieSizes == {4}
SchedRolls == {399}
\* trash counts drawn by spawnConsolationLoot while several batches interleave
SchedTrashCounts == {1}
\* die sizes and roll values used when one batch is followed to its end:
\* on the d100 table the seven roll values give the seven tiers
BatchDieSizes == {4, 100, 7}
BatchRolls == {0, 60, 120, 200, 260, 340, 399}
\* how far the clock may move without reaching a timer (50 ms)
AdvanceSteps == {500}
\* the time between two frames while the Goodbye Sequence is followed (50 ms)
FrameElapsed == {150}
\* the tiers of directly spawned cubes
FrameTiers == {7}
\* particle and scanline lives, and the time between two particle frames, in
\* units of a quarter of PARTICLE_MAGNITUDE.lifetime
ScanlineLives == {1, 2}
ParticleDeltas == {0, 1, 2}
\* window.innerWidth and the bottom of the bucket's bounding rectangle
InnerWidth == 100
BucketBottom == 60
\* render positions, body positions and velocities handed to containCube
ContainPxX == {-100, 9, 10, 50, 90, 91}
ContainPxY == {-5, 9, 10, 30, 60, 61}
ContainPosX == {-200, 100}
\* body positions and velocities resize finds, and the window.innerWidth and
\* bucket bottom it runs with
ResizePosX == {-40, 20, 100, 180, 182}
ResizePosY == {-10, 20, 60, 120, 122}
ResizeVelX == {-4, 6}
ResizeVelY == {4}
ResizeWidths == {60, 100}
ResizeBottoms == {40, 60}
\* resize moves a cube this many px inside a boundary
RESIZE_INSET == 20
ContainPosY == {-10}
ContainVelX == {-4, 6}
ContainVelY == {-6, 4}

\* app.js: the game states
IDLE == "idle"
RAMPING == "ramping"
RAMPED == "ramped"
LOOT_RESOLUTION == "loot_resolution"
GameState == {IDLE, RAMPING, RAMPED, LOOT_RESOLUTION}

\* app.js: energy and times in ms; the drain rates are per 10 ms
MAX_ENERGY_MS == 2000
ENERGY_PER_CLICK_MS == 450
DrainScale == 10
HOLD_DRAIN_RATE == 1
RELEASE_DRAIN_RATE == 15
DRAIN_DELTA_CAP_MS == 100
WIN_LOOT_DELAY_MS == 950
MISS_FEEDBACK_MS == 800
SETTLING_DURATION_MS == 3000
HOLD_INTERVAL_MS == 500

\* pendingFinish = null
NoFinish == [result |-> 0, rolledDie |-> 0]

\* the die buttons of the page, in document order
DieButtons == <<4, 6>>

\* at most this many input events reach the page between two frames
MaxInputsPerFrame == 2

----------------------------------------------------------------------------
VARIABLES
  dropsInFlight,   \* loot.js: counter of spawned drops that have not settled
  lootQueue,       \* loot.js: pending requests, each [id, dieSize, rollResult]
  timers,          \* pending setTimeout callbacks in firing order
  world,           \* physics.js: TRUE once the physics world exists
  cubes,           \* physics.js: the cube list
  goodbyeMode,     \* physics.js
  goodbyeGravityRestored,
  ceilingCollider, \* physics.js: TRUE when the ceiling collider exists
  gravity,         \* physics.js: "down" or "up"
  calls,           \* number of calls of the exported spawn functions so far
  goodbyes,        \* number of triggerGoodbye calls made so far
  nextBatch,       \* identity of the next batch handed to processDrops
  lastBatch,       \* the batch most recently handed to processDrops
  queuedLog,       \* the requests pushed on lootQueue, in push order
  handedLog,       \* the dequeued requests, in processLootDrop order
  batchSize,       \* per batch, the number of drops it scheduled
  spawned,         \* per batch, the tiers passed to spawnCube, in call order
  lastReturn,      \* return value of the most recent spawnConsolationLoot
  announcement,    \* loot.js: tier named in the live region, 0 when it is empty
  rollIn,          \* input of the rollTier harness
  rollOut,         \* result of the rollTier harness
  bodies,          \* physics.js: the rigid bodies the world holds
  nextBody,        \* identity of the next rigid body the world creates
  accumulator,     \* physics.js: simulated time not yet stepped
  impacts,         \* physics.js: the impact-mark list
  frameSteps,      \* substeps run by the most recent frame
  frameAlpha,      \* interpolation factor the most recent frame rendered with
  danglingReads,   \* bodies read through the cube list after their removal
  removedEarly,    \* bodies the most recent frame removed before its render
  marksDropped,    \* collisions of the most recent frame that pushed no mark
  lastReader,      \* the most recent reader of the cube list
  lastElapsed,     \* now - lastTime as the most recent frame measured it
  frameAdvanced,   \* world time the most recent frame stepped the world by
  lagging,         \* bodies whose prev transform is one timestep behind
  goodbyeReturn,   \* return value of the most recent triggerGoodbye
  containIn,       \* input of the containCube harness
  containOut,      \* result of the containCube harness
  resizeIn,        \* a cube's body and the window when resize ran
  resizeOut,       \* that body when resize returned
  isEnabled,       \* particles.js
  particles,       \* particles.js: the active particles, each [id, life]
  particlePool,    \* particles.js: the free particle objects
  scanlines,       \* particles.js: the active scanlines, each [id, life]
  scanlinePool,    \* particles.js: the free scanline objects
  animationId,     \* particles.js: TRUE when animationId is not null
  rafPending,      \* animation-frame callbacks of particles.js not yet run
  particlesMade,   \* number of createParticle calls so far
  scanlinesMade,   \* number of createScanline calls so far
  peakParticles,   \* largest length the particle list has had
  peakScanlines,   \* largest length the scanline list has had
  particleCalls,   \* number of spawnParticles / spawnSparkles calls so far
  physInit,        \* outcome of initPhysics: "none" before it has run
  partInit,        \* outcome of initParticles: "none" before it has run
  threw,           \* TRUE once a call of the physics API has thrown
  cubeCountReturn, \* return value of the most recent getCubeCount, -1 if none
  activeReturn,    \* return value of the most recent isGoodbyeActive
  gameState,       \* app.js
  lootResult,      \* app.js: "hit", "miss", or "none" for null
  currentDie,      \* app.js
  rampedMax,       \* app.js: 0 for null
  energy,          \* app.js
  energyDrainFrame, \* app.js: TRUE while the drain loop has a frame requested
  pendingFinish,   \* app.js: [result, rolledDie], NoFinish for null
  isHolding,       \* app.js
  holdInterval,    \* app.js: ms until the hold interval fires, -1 for null
  settlingAnimationFrame, \* app.js: ms the settling animation has left, -1 for null
  sparkleInterval, \* app.js: TRUE while the sparkle interval is set
  missTimers,      \* ms left of each pending miss-feedback timeout
  lootTimers,      \* ms left of each pending loot-delay timeout
  transitions,     \* the setState calls of the most recent handler, in order
  effects,         \* the calls into loot.js / particles.js of that handler
  pointerIsDown,   \* TRUE while the pointer is pressed on the die
  arrowDown,       \* TRUE while an arrow key is pressed
  inputsThisFrame  \* input events dispatched since the last animation frame

vars == <<dropsInFlight, lootQueue, timers, world, cubes, goodbyeMode,
          goodbyeGravityRestored, ceilingCollider, gravity, calls, goodbyes,
          nextBatch, lastBatch, queuedLog, handedLog, batchSize, spawned,
          lastReturn, announcement, rollIn, rollOut, bodies, nextBody,
          accumulator, impacts, frameSteps, frameAlpha, danglingReads,
          removedEarly, marksDropped, lastReader, lastElapsed,
          frameAdvanced, lagging, goodbyeReturn, containIn, containOut,
          resizeIn, resizeOut,
          isEnabled, particles, particlePool, scanlines, scanlinePool,
          animationId, rafPending, particlesMade, scanlinesMade,
          peakParticles, peakScanlines, particleCalls, physInit, partInit,
          threw, cubeCountReturn, activeReturn, gameState, lootResult,
          currentDie, rampedMax, energy, energyDrainFrame, pendingFinish,
          isHolding, holdInterval, settlingAnimationFrame, sparkleInterval,
          missTimers, lootTimers, transitions, effects, pointerIsDown,
          arrowDown, inputsThisFrame>>

lootVars == <<dropsInFlight, lootQueue, timers, calls, nextBatch, lastBatch,
              queuedLog, handedLog, batchSize, spawned, lastReturn,
              announcement>>
frameVars == <<accumulator, impacts, frameSteps, frameAlpha, danglingReads,
               removedEarly, marksDropped, lastReader, lastElapsed,
               frameAdvanced, lagging>>
containVars == <<containIn, containOut, resizeIn, resizeOut>>
physVars == <<world, cubes, goodbyeMode, goodbyeGravityRestored,
              ceilingCollider, gravity, goodbyes, bodies, nextBody,
              goodbyeReturn, frameVars, containVars>>
rollVars == <<rollIn, rollOut>>
partVars == <<isEnabled, particles, particlePool, scanlines, scanlinePool,
              animationId, rafPending, particlesMade, scanlinesMade,
              peakParticles, peakScanlines, particleCalls>>
\* what the loot scheduler and the physics module leave alone
initVars == <<physInit, partInit, threw, cubeCountReturn, activeReturn>>
appVars == <<gameState, lootResult, currentDie, rampedMax, energy,
             energyDrainFrame, pendingFinish, isHolding, holdInterval,
             settlingAnimationFrame, sparkleInterval, missTimers, lootTimers,
             transitions, effects, pointerIsDown, arrowDown, inputsThisFrame>>
restVars == <<partVars, initVars, appVars>>

----------------------------------------------------------------------------
(* Helpers *)

Max(a, b) == IF a >= b THEN a ELSE b
Min(a, b) == IF a <= b THEN a ELSE b
Abs(a) == IF a >= 0 THEN a ELSE -a

\* Math.min(...s)
SeqMin(s) ==
  CHOOSE m \in {s[i] : i \in 1..Len(s)} : \A i \in 1..Len(s) : m <= s[i]

\* Array.prototype.indexOf, 1-based
IndexOf(s, v) == CHOOSE i \in 1..Len(s) : s[i] = v /\ \A j \in 1..(i-1) : s[j] # v

\* variant: the sort left out
SortNone(s) == s

\* drops.sort((a, b) => b - a): position i holds the tier t such that fewer
\* than i elements are above t and at least i elements are t or above
SortDesc(s) ==
  [i \in 1..Len(s) |->
     CHOOSE t \in {s[j] : j \in 1..Len(s)} :
       /\ Cardinality({j \in 1..Len(s) : s[j] > t}) < i
       /\ i <= Cardinality({j \in 1..Len(s) : s[j] >= t})]

----------------------------------------------------------------------------
(* loot.js: rollTier *)

\* variant: the bracket test written roll <= cumulative
RECURSIVE RollTierLoopInclusive(_, _, _, _)
RollTierLoopInclusive(weights, roll, tier, cumulative) ==
  IF tier > 7 THEN [tier |-> 7, fallback |-> TRUE]
  ELSE LET c == cumulative + weights[tier] IN
       IF roll <= c THEN [tier |-> tier, fallback |-> FALSE]
       ELSE RollTierLoopInclusive(weights, roll, tier + 1, c)

\* the for loop of rollTier; fallback is TRUE when the final 'return 7' ran
RECURSIVE RollTierLoop(_, _, _, _)
RollTierLoop(weights, roll, tier, cumulative) ==
  IF tier > 7 THEN [tier |-> 7, fallback |-> TRUE]
  ELSE LET c == cumulative + weights[tier] IN
       IF roll < c THEN [tier |-> tier, fallback |-> FALSE]
       ELSE RollTierLoop(weights, roll, tier + 1, c)

\* RARITY_WEIGHTS[dieSize] || RARITY_WEIGHTS[20]
WeightsFor(dieSize) ==
  IF dieSize \in DOMAIN RARITY_WEIGHTS THEN RARITY_WEIGHTS[dieSize]
  ELSE RARITY_WEIGHTS[20]

rollTierTrace(dieSize, roll) == RollTierLoop(WeightsFor(dieSize), roll, 1, 0)

rollTier(dieSize, roll) == rollTierTrace(dieSize, roll).tier

----------------------------------------------------------------------------
(* loot.js: building a batch *)

\* variant: the pity test written tier >= TIER_TRASH
PityUpgradeTrashOnly(drops) ==
  LET allTrash == \A i \in 1..Len(drops) : drops[i] >= TIER_TRASH IN
  IF allTrash
  THEN LET bestIndex == IndexOf(drops, SeqMin(drops)) IN
       [drops EXCEPT ![bestIndex] = drops[bestIndex] - 1]
  ELSE drops

\* the sequences of n Math.random draws taken from S
RECURSIVE RollDraws(_, _)
RollDraws(n, S) ==
  IF n = 0 THEN {<<>>}
  ELSE {Append(s, r) : s \in RollDraws(n - 1, S), r \in S}

\* the pity upgrade of processLootDrop
PityUpgrade(drops) ==
  LET allTrash == \A i \in 1..Len(drops) : drops[i] >= TIER_ZZZ IN
  IF allTrash
  THEN LET bestIndex == IndexOf(drops, SeqMin(drops)) IN
       [drops EXCEPT ![bestIndex] = drops[bestIndex] - 1]
  ELSE drops

\* variant: the guaranteed drop pushed as TIER_ZZZ
RolledDropsZzz(dieSize, rolls) ==
  [i \in 1..Len(rolls) |-> rollTier(dieSize, rolls[i])] \o <<TIER_ZZZ>>

\* the drops processLootDrop rolls: rollResult rolled tiers plus one trash
RolledDrops(dieSize, rolls) ==
  [i \in 1..Len(rolls) |-> rollTier(dieSize, rolls[i])] \o <<TIER_TRASH>>

\* variant: the consolation drops sent through the pity upgrade
ConsolationDropsPity(trashCount, includeZzz) ==
  PityUpgrade([i \in 1..trashCount |-> TIER_TRASH]
                \o (IF includeZzz THEN <<TIER_ZZZ>> ELSE <<>>))

\* the drops spawnConsolationLoot builds
ConsolationDrops(trashCount, includeZzz) ==
  [i \in 1..trashCount |-> TIER_TRASH]
    \o (IF includeZzz THEN <<TIER_ZZZ>> ELSE <<>>)

----------------------------------------------------------------------------
(* Timers: setTimeout keeps callbacks ordered by deadline, then by call order *)

\* the pending timers tq together with the newly set timers new (in the order
\* they were set, their delays increasing): a new timer fires after every
\* pending timer whose deadline is not later
MergeTimers(tq, new) ==
  LET m == Len(tq)
      n == Len(new)
      posOld(j) == j + Cardinality({i \in 1..n : new[i].rem < tq[j].rem})
      posNew(i) == i + Cardinality({j \in 1..m : tq[j].rem <= new[i].rem})
  IN  [p \in 1..(m + n) |->
         IF \E j \in 1..m : posOld(j) = p
         THEN tq[CHOOSE j \in 1..m : posOld(j) = p]
         ELSE new[CHOOSE i \in 1..n : posNew(i) = p]]

\* setTimeout(callback, t.rem)
InsertTimer(tq, t) == MergeTimers(tq, <<t>>)

DropTimer(tier, batch, delay) ==
  [kind |-> "drop", tier |-> tier, batch |-> batch, rem |-> delay]
SettleTimer ==
  [kind |-> "settle", tier |-> 0, batch |-> 0, rem |-> SETTLE_DELAY]
\* the timer of announce; tier stands for the message `${name}!` of that tier
AnnounceTimer(tier) ==
  [kind |-> "announce", tier |-> tier, batch |-> 0, rem |-> ANNOUNCE_CLEAR_DELAY]

\* Math.max(MIN_DROP_INTERVAL_MS, BASE_DROP_INTERVAL_MS - drops.length * 1.2)
DropInterval(n) ==
  Max(MIN_DROP_INTERVAL_MS, BASE_DROP_INTERVAL_MS - n * DROP_INTERVAL_SLOPE)

\* drops.forEach((tier, index) => setTimeout(..., index * dropInterval))
ScheduleDrops(tq, sorted, interval, batch) ==
  MergeTimers(tq, [k \in 1..Len(sorted) |->
                    DropTimer(sorted[k], batch, (k - 1) * interval)])

\* processDrops: sort worst first, announce, then stagger
processDrops(tq, drops, batch) ==
  LET sorted == SortDesc(drops)
      bestTier == SeqMin(sorted)
      announced == IF bestTier <= ANNOUNCE_MAX_TIER
                   THEN InsertTimer(tq, AnnounceTimer(bestTier)) ELSE tq
  IN  ScheduleDrops(announced, sorted, DropInterval(Len(sorted)), batch)

\* the timers left after the head fired, the clock moved to its deadline
AfterHead(tq) ==
  [i \in 1..(Len(tq) - 1) |-> [tq[i + 1] EXCEPT !.rem = @ - tq[1].rem]]

----------------------------------------------------------------------------
(* physics.js: spawnCube *)

\* the entry spawnCube pushes; body is the rigid body created for it
\* popping says that poppingAt is set; poppingAt names the value it was given
\* ("delayed" for now + GOODBYE_POP_DELAY, "now" for now, "unset" before) and
\* popWrites counts the assignments to it
Cube(tier) ==
  [tier |-> tier, popping |-> FALSE, body |-> nextBody,
   poppingAt |-> "unset", popWrites |-> 0]

\* variant: only a missing world rejects the call
spawnCubeWorldOnly(cs, tier) == IF ~world THEN cs ELSE Append(cs, Cube(tier))

\* variant: the goodbye and world guard left out
spawnCubeUnguarded(cs, tier) == Append(cs, Cube(tier))

spawnCube(cs, tier) ==
  IF ~world \/ goodbyeMode THEN cs ELSE Append(cs, Cube(tier))

----------------------------------------------------------------------------
(* Initial state: the modules are loaded, nothing has been called *)

NoBatch ==
  [id |-> 0, kind |-> "none", rollResult |-> 0,
   rolled |-> <<>>, drops |-> <<>>, sorted |-> <<>>]
NoRoll == [dieSize |-> 0, roll |-> 0]
NoResult == [tier |-> 0, fallback |-> FALSE]
NoContain == [pxX |-> 0, pxY |-> 0, x |-> 0, y |-> 0, vx |-> 0, vy |-> 0,
              goodbye |-> FALSE]

NoResize == [x |-> 0, y |-> 0, vx |-> 0, vy |-> 0, innerWidth |-> 0, bottom |-> 0]

BatchIds == 1..MaxCalls

InitLoot ==
  /\ dropsInFlight = 0
  /\ lootQueue = <<>>
  /\ timers = <<>>
  /\ calls = 0
  /\ nextBatch = 1
  /\ lastBatch = NoBatch
  /\ queuedLog = <<>>
  /\ handedLog = <<>>
  /\ batchSize = [b \in BatchIds |-> 0]
  /\ spawned = [b \in BatchIds |-> <<>>]
  /\ lastReturn = 0
  /\ announcement = 0

\* w: whether initPhysics created the world
InitPhysWith(w) ==
  /\ world = w
  /\ cubes = <<>>
  /\ goodbyeMode = FALSE
  /\ goodbyeGravityRestored = FALSE
  /\ ceilingCollider = FALSE
  /\ gravity = "down"
  /\ goodbyes = 0
  /\ bodies = {}
  /\ nextBody = 1
  /\ accumulator = 0
  /\ impacts = <<>>
  /\ frameSteps = 0
  /\ frameAlpha = 0
  /\ danglingReads = {}
  /\ removedEarly = {}
  /\ marksDropped = 0
  /\ lastReader = "none"
  /\ lastElapsed = 0
  /\ frameAdvanced = 0
  /\ lagging = {}
  /\ goodbyeReturn = "none"
  /\ containIn = NoContain
  /\ containOut = NoContain
  /\ resizeIn = NoResize
  /\ resizeOut = NoResize

InitPhys == InitPhysWith(TRUE)

\* particles.js after initParticles returned enabled
InitParticles(enabled) ==
  /\ isEnabled = enabled
  /\ particles = <<>>
  /\ particlePool = <<>>
  /\ scanlines = <<>>
  /\ scanlinePool = <<>>
  /\ animationId = FALSE
  /\ rafPending = 0
  /\ particlesMade = 0
  /\ scanlinesMade = 0
  /\ peakParticles = 0
  /\ peakScanlines = 0
  /\ particleCalls = 0

\* the outcomes of the init calls that left this state, nothing called since
InitCalls ==
  /\ physInit = IF world THEN "true" ELSE "false"
  /\ partInit = IF isEnabled THEN "true" ELSE "false"
  /\ threw = FALSE
  /\ cubeCountReturn = -1
  /\ activeReturn = "none"

\* app.js as the module's top level leaves it
InitApp ==
  /\ gameState = IDLE
  /\ lootResult = "none"
  /\ currentDie = 4
  /\ rampedMax = 0
  /\ energy = 0
  /\ energyDrainFrame = FALSE
  /\ pendingFinish = NoFinish
  /\ isHolding = FALSE
  /\ holdInterval = -1
  /\ settlingAnimationFrame = -1
  /\ sparkleInterval = FALSE
  /\ missTimers = {}
  /\ lootTimers = {}
  /\ transitions = <<>>
  /\ effects = <<>>
  /\ pointerIsDown = FALSE
  /\ arrowDown = FALSE
  /\ inputsThisFrame = 0

InitRest == InitParticles(TRUE) /\ InitCalls /\ InitApp

Init ==
  /\ InitLoot
  /\ InitPhys
  /\ rollIn = NoRoll
  /\ rollOut = NoResult
  /\ InitRest

----------------------------------------------------------------------------
(* loot.js: the scheduler *)

\* processDrops called for a new batch; tq is the timer list it adds to
StartBatch(tq, kind, rollResult, rolled, drops) ==
  /\ timers' = processDrops(tq, drops, nextBatch)
  /\ announcement' = IF SeqMin(drops) <= ANNOUNCE_MAX_TIER
                     THEN SeqMin(drops) ELSE announcement
  /\ nextBatch' = nextBatch + 1
  /\ lastBatch' = [id |-> nextBatch, kind |-> kind, rollResult |-> rollResult,
                   rolled |-> rolled, drops |-> drops,
                   sorted |-> SortDesc(drops)]
  /\ batchSize' = [batchSize EXCEPT ![nextBatch] = Len(drops)]

\* processLootDrop(dieSize, rollResult, ...) with the given Math.random draws
processLootDrop(tq, dieSize, rollResult, rolls) ==
  \E rolled \in {RolledDrops(dieSize, rolls)} :
    \E drops \in {PityUpgrade(rolled)} :
      StartBatch(tq, "loot", rollResult, rolled, drops)

spawnLoot(dieSize, rollResult, rolls) ==
  /\ calls < MaxCalls
  /\ calls' = calls + 1
  /\ IF dropsInFlight > 0
     THEN LET request == [id |-> calls + 1, dieSize |-> dieSize,
                          rollResult |-> rollResult] IN
          /\ lootQueue' = Append(lootQueue, request)
          /\ queuedLog' = Append(queuedLog, request)
          /\ UNCHANGED <<timers, nextBatch, lastBatch, batchSize, announcement>>
     ELSE /\ processLootDrop(timers, dieSize, rollResult, rolls)
          /\ UNCHANGED <<lootQueue, queuedLog>>
  /\ UNCHANGED <<dropsInFlight, handedLog, spawned, lastReturn>>
  /\ UNCHANGED <<physVars, rollVars, restVars>>

\* variant: consolation drops held back while a drop is in flight
spawnConsolationLootGated(trashCount, includeZzz) ==
  /\ calls < MaxCalls
  /\ calls' = calls + 1
  /\ IF dropsInFlight > 0
     THEN UNCHANGED <<timers, nextBatch, lastBatch, batchSize, announcement>>
     ELSE \E drops \in {ConsolationDrops(trashCount, includeZzz)} :
            StartBatch(timers, "consolation", 0, drops, drops)
  /\ lastReturn' = IF includeZzz THEN TIER_ZZZ ELSE TIER_TRASH
  /\ UNCHANGED <<dropsInFlight, lootQueue, queuedLog, handedLog, spawned>>
  /\ UNCHANGED <<physVars, rollVars, restVars>>

spawnConsolationLoot(trashCount, includeZzz) ==
  /\ calls < MaxCalls
  /\ calls' = calls + 1
  /\ \E drops \in {ConsolationDrops(trashCount, includeZzz)} :
       StartBatch(timers, "consolation", 0, drops, drops)
  /\ lastReturn' = IF includeZzz THEN TIER_ZZZ ELSE TIER_TRASH
  /\ UNCHANGED <<dropsInFlight, lootQueue, queuedLog, handedLog, spawned>>
  /\ UNCHANGED <<physVars, rollVars, restVars>>

\* variant: the outer callback spawns the cube without counting the drop
DropCallbackUncounted(t, rest) ==
  /\ dropsInFlight' = dropsInFlight
  /\ cubes' = spawnCube(cubes, t.tier)
  /\ spawned' = [spawned EXCEPT ![t.batch] = Append(@, t.tier)]
  /\ timers' = InsertTimer(rest, SettleTimer)
  /\ UNCHANGED <<lootQueue, calls, nextBatch, lastBatch, queuedLog, handedLog,
                 batchSize, lastReturn, announcement>>
  /\ bodies' = IF Len(cubes') > Len(cubes) THEN bodies \cup {nextBody} ELSE bodies
  /\ nextBody' = IF Len(cubes') > Len(cubes) THEN nextBody + 1 ELSE nextBody
  /\ UNCHANGED <<world, goodbyeMode, goodbyeGravityRestored, ceilingCollider,
                 gravity, goodbyes, goodbyeReturn, frameVars, containVars>>

\* the outer setTimeout callback of processDrops
DropCallback(t, rest) ==
  /\ dropsInFlight' = dropsInFlight + 1
  /\ cubes' = spawnCube(cubes, t.tier)
  /\ spawned' = [spawned EXCEPT ![t.batch] = Append(@, t.tier)]
  /\ timers' = InsertTimer(rest, SettleTimer)
  /\ UNCHANGED <<lootQueue, calls, nextBatch, lastBatch, queuedLog, handedLog,
                 batchSize, lastReturn, announcement>>
  /\ bodies' = IF Len(cubes') > Len(cubes) THEN bodies \cup {nextBody} ELSE bodies
  /\ nextBody' = IF Len(cubes') > Len(cubes) THEN nextBody + 1 ELSE nextBody
  /\ UNCHANGED <<world, goodbyeMode, goodbyeGravityRestored, ceilingCollider,
                 gravity, goodbyes, goodbyeReturn, frameVars, containVars>>

\* variant: lootQueue.pop()
Pop(q) == [next |-> q[Len(q)], rest |-> SubSeq(q, 1, Len(q) - 1)]

\* lootQueue.shift()
Shift(q) == [next |-> Head(q), rest |-> Tail(q)]

\* variant: the counter tested as it was before the decrement
ShouldDequeueBeforeDecrement(inFlight, q) == inFlight + 1 = 0 /\ Len(q) > 0

\* dropsInFlight === 0 && lootQueue.length > 0, after the decrement
ShouldDequeue(inFlight, q) == inFlight = 0 /\ Len(q) > 0

\* the inner setTimeout callback of processDrops
SettleCallback(rest, rolls) ==
  /\ dropsInFlight' = dropsInFlight - 1
  /\ IF ShouldDequeue(dropsInFlight - 1, lootQueue)
     THEN LET sh == Shift(lootQueue) IN
          /\ lootQueue' = sh.rest
          /\ handedLog' = Append(handedLog, sh.next)
          /\ processLootDrop(rest, sh.next.dieSize, sh.next.rollResult, rolls)
     ELSE /\ timers' = rest
          /\ UNCHANGED <<lootQueue, handedLog, nextBatch, lastBatch, batchSize,
                         announcement>>
  /\ UNCHANGED <<calls, queuedLog, spawned, lastReturn>>
  /\ UNCHANGED physVars

\* the setTimeout callback of announce: clear the message if it is still shown
AnnounceCallback(t, rest) ==
  /\ announcement' = IF announcement = t.tier THEN 0 ELSE announcement
  /\ timers' = rest
  /\ UNCHANGED <<dropsInFlight, lootQueue, calls, nextBatch, lastBatch,
                 queuedLog, handedLog, batchSize, spawned, lastReturn>>
  /\ UNCHANGED physVars

\* number of Math.random draws rollTier makes if the next callback dequeues
QueuedRollCount == IF lootQueue = <<>> THEN 0 ELSE Head(lootQueue).rollResult

\* the earliest pending timer fires; rolls are the draws of a dequeued request
FireTimerWith(rolls) ==
  /\ timers # <<>>
  /\ LET t == Head(timers)
         rest == AfterHead(timers)
     IN  \/ t.kind = "drop" /\ DropCallback(t, rest)
         \/ t.kind = "settle" /\ SettleCallback(rest, rolls)
         \/ t.kind = "announce" /\ AnnounceCallback(t, rest)
  /\ UNCHANGED <<rollVars, restVars>>

FireTimer == \E rolls \in RollDraws(QueuedRollCount, SchedRolls) : FireTimerWith(rolls)

\* time passes without reaching the next deadline
Advance(d) ==
  /\ timers # <<>>
  /\ d <= Head(timers).rem
  /\ timers' = [i \in 1..Len(timers) |-> [timers[i] EXCEPT !.rem = @ - d]]
  /\ UNCHANGED <<dropsInFlight, lootQueue, calls, nextBatch, lastBatch,
                 queuedLog, handedLog, batchSize, spawned, lastReturn,
                 announcement>>
  /\ UNCHANGED <<physVars, rollVars, restVars>>

----------------------------------------------------------------------------------------------------------------------------------------
(* physics.js: the Goodbye Sequence and the frame loop.  The rigid-body     *)
(* engine is outside the repository: what it reports in a frame (which      *)
(* cubes are above the halfway line, which collisions started, which cubes  *)
(* are slower than the settle threshold, whose pop animation has run its    *)
(* full duration) is an input of the frame.                                 *)

\* the sets of cube indices a frame's engine report may name
FrameSets(n) == {{}, {i \in 1..n : i = 1}, 1..n}

\* the rigid bodies of the cubes in a cube list
CubeBodies(cs) == {cs[i].body : i \in 1..Len(cs)}

\* variant: only an active sequence rejects the call
GoodbyeRejectedActiveOnly == goodbyeMode

\* triggerGoodbye's early return
GoodbyeRejected == goodbyeMode \/ Len(cubes) = 0

triggerGoodbye ==
  /\ goodbyes < MaxGoodbyes
  /\ goodbyes' = goodbyes + 1
  /\ IF GoodbyeRejected
     THEN /\ goodbyeReturn' = "false"
          /\ UNCHANGED <<goodbyeMode, goodbyeGravityRestored, ceilingCollider,
                         gravity>>
     ELSE /\ goodbyeMode' = TRUE
          /\ goodbyeGravityRestored' = FALSE
          \* world.createCollider throws when there is no world
          /\ goodbyeReturn' = IF world THEN "true" ELSE goodbyeReturn
          /\ ceilingCollider' = IF world THEN TRUE ELSE ceilingCollider
          /\ gravity' = IF world THEN "up" ELSE gravity
  /\ threw' = (threw \/ (~GoodbyeRejected /\ ~world))
  /\ UNCHANGED <<world, cubes, bodies, nextBody, frameVars, containVars>>
  /\ UNCHANGED <<lootVars, rollVars, appVars, partVars, physInit, partInit,
                 cubeCountReturn, activeReturn>>

\* variant: the ceiling collider is left in the world when the sequence ends
updateGoodbyeModeKeepCeiling ==
  IF goodbyeMode /\ Len(cubes) = 0
  THEN [mode |-> FALSE, ceiling |-> ceilingCollider, gravity |-> "down"]
  ELSE [mode |-> goodbyeMode, ceiling |-> ceilingCollider, gravity |-> gravity]

\* the goodbye flag, the ceiling collider and gravity after updateGoodbyeMode
updateGoodbyeMode ==
  IF goodbyeMode /\ Len(cubes) = 0
  THEN [mode |-> FALSE, ceiling |-> FALSE, gravity |-> "down"]
  ELSE [mode |-> goodbyeMode, ceiling |-> ceilingCollider, gravity |-> gravity]

\* variant: the elapsed time is not capped
FrameDeltaUncapped(elapsed) == elapsed

\* delta = Math.min(now - lastTime, DELTA_CAP_MS)
FrameDelta(elapsed) == IF elapsed < DELTA_CAP_MS THEN elapsed ELSE DELTA_CAP_MS

\* variant: the loop runs while more than one timestep is left
RECURSIVE StepLoopStrict(_, _)
StepLoopStrict(acc, steps) ==
  IF acc > PHYSICS_TIMESTEP /\ steps < MAX_SUBSTEPS
  THEN StepLoopStrict(acc - PHYSICS_TIMESTEP, steps + 1)
  ELSE [acc |-> acc, steps |-> steps]

\* the substep loop: accumulator and steps when it exits
RECURSIVE StepLoop(_, _)
StepLoop(acc, steps) ==
  IF acc >= PHYSICS_TIMESTEP /\ steps < MAX_SUBSTEPS
  THEN StepLoop(acc - PHYSICS_TIMESTEP, steps + 1)
  ELSE [acc |-> acc, steps |-> steps]

\* a frame's substeps, interpolation factor (PHYSICS_TIMESTEP stands for 1)
\* and the accumulator it leaves
FrameStep(acc, elapsed) ==
  LET r == StepLoop(acc + FrameDelta(elapsed), 0)
  IN  [steps |-> r.steps,
       advanced |-> acc + FrameDelta(elapsed) - r.acc,
       alpha |-> IF r.steps > 0 /\ r.acc < PHYSICS_TIMESTEP
                 THEN r.acc ELSE PHYSICS_TIMESTEP,
       accumulator |-> IF r.acc >= PHYSICS_TIMESTEP THEN 0 ELSE r.acc]

\* variant: every cube ... replaced by some cube
AnyPastHalfway(above, n) == above \cap (1..n) # {}

\* cubes.every(cube => posY < halfwayY)
AllPastHalfway(above, n) == \A i \in 1..n : i \in above

\* variant: the length test is <= MAX_IMPACTS
AcceptedMarksInclusive(n, k) == Max(0, -Max(-k, n - MAX_IMPACTS - 1))

\* of k drained collisions, the number that push a mark on a list of n marks
AcceptedMarks(n, k) == Max(0, -Max(-k, n - MAX_IMPACTS))

\* the mark pushed for a collision
ImpactMark(cs, ev) ==
  [alpha |-> ALPHA_ONE, surface |-> ev.surface, tier |-> cs[ev.cube].tier]

\* the impact list after the collision drain
DrainImpacts(imps, cs, events) ==
  imps \o [j \in 1..AcceptedMarks(Len(imps), Len(events)) |->
             ImpactMark(cs, events[j])]

\* impacts.filter: every mark fades by delta * IMPACT_FADE_RATE and is kept
\* while its alpha is positive
FadeImpacts(imps, delta) ==
  SelectSeq([j \in 1..Len(imps) |->
               [imps[j] EXCEPT !.alpha = @ - delta * IMPACT_FADE_RATE]],
            LAMBDA m : m.alpha > 0)

\* variant: a floor collision sets poppingAt whether or not it is set
DrainPopsUnguarded(cs, events, mode, restored) ==
  [i \in 1..Len(cs) |->
     IF /\ mode /\ restored
        /\ \E j \in 1..Len(events) :
             events[j].cube = i /\ events[j].surface = "floor"
     THEN [cs[i] EXCEPT !.popping = TRUE, !.poppingAt = "delayed",
                        !.popWrites = @ + 1]
     ELSE cs[i]]

\* the cube list after the collision drain: a floor collision starts the pop
\* of a cube when the sequence is active and gravity has been restored
DrainPops(cs, events, mode, restored) ==
  [i \in 1..Len(cs) |->
     IF /\ mode /\ restored /\ ~cs[i].popping
        /\ \E j \in 1..Len(events) :
             events[j].cube = i /\ events[j].surface = "floor"
     THEN [cs[i] EXCEPT !.popping = TRUE, !.poppingAt = "delayed",
                        !.popWrites = @ + 1]
     ELSE cs[i]]

\* variant: the settle check runs in every phase
SettlePopsAnyPhase(cs, slow, mode, restored) ==
  [i \in 1..Len(cs) |->
     IF i \in slow /\ ~cs[i].popping
     THEN [cs[i] EXCEPT !.popping = TRUE, !.poppingAt = "now",
                        !.popWrites = @ + 1]
     ELSE cs[i]]

\* the settle check
SettlePops(cs, slow, mode, restored) ==
  [i \in 1..Len(cs) |->
     IF mode /\ restored /\ i \in slow /\ ~cs[i].popping
     THEN [cs[i] EXCEPT !.popping = TRUE, !.poppingAt = "now",
                        !.popWrites = @ + 1]
     ELSE cs[i]]

\* variant: the filtered list is not kept
RemoveMarkedNone(cs, marked) == cs

\* cubes.filter(c => !c.markedForRemoval)
RemoveMarked(cs, marked) ==
  LET keep == {i \in 1..Len(cs) : i \notin marked}
      Rank(i) == Cardinality({j \in keep : j <= i})
  IN  [k \in 1..Cardinality(keep) |-> cs[CHOOSE i \in keep : Rank(i) = k]]

\* variant: the bodies are removed from the world before the render pass
BodiesAtRenderEarly(bs, removed) == bs \ removed

\* the bodies the world holds during the render pass
BodiesAtRender(bs, removed) == bs

\* the collision lists the engine may hand to a frame over n cubes
EventLists(n, ceiling) ==
  {<<>>}
  \cup {[j \in 1..1 |-> [cube |-> 1, surface |-> "floor"]] : k \in {m \in {1} : n >= 1}}
  \cup {[j \in 1..n |-> [cube |-> j, surface |-> "floor"]] : k \in {m \in {1} : n >= 1}}
  \cup {[j \in 1..n |-> [cube |-> j, surface |-> "ceiling"]] :
          k \in {m \in {1} : n >= 1 /\ ceiling}}

animate(elapsed, above, events, slow, finished) ==
  /\ world
  /\ \E u \in {updateGoodbyeMode} :
     \E r \in {FrameStep(accumulator, elapsed)} :
       /\ r.steps = 0 => events = <<>>
       /\ \A j \in 1..Len(events) : events[j].surface = "ceiling" => u.ceiling
       \* restore gravity once every cube has passed the halfway line
       /\ \E restoring \in {/\ u.mode /\ ~goodbyeGravityRestored
                              /\ AllPastHalfway(above, Len(cubes))} :
          \E restored \in {goodbyeGravityRestored \/ restoring} :
          \E c1 \in {DrainPops(cubes, events, u.mode, goodbyeGravityRestored)} :
          \E c2 \in {SettlePops(c1, slow, u.mode, restored)} :
          \* pop animations that reached progress 1 are marked
          \E marked \in {{i \in finished : i <= Len(cubes) /\ cubes[i].popping}} :
          \E removed \in {{cubes[i].body : i \in marked}} :
          \E kept \in {RemoveMarked(c2, marked)} :
          \E atRender \in {BodiesAtRender(bodies, removed)} :
          \E accepted \in {AcceptedMarks(Len(impacts), Len(events))} :
              /\ goodbyeMode' = u.mode
              /\ goodbyeGravityRestored' = restored
              /\ ceilingCollider' = u.ceiling
              /\ gravity' = IF restoring THEN "down" ELSE u.gravity
              /\ accumulator' = r.accumulator
              /\ frameSteps' = r.steps
              /\ frameAlpha' = r.alpha
              /\ impacts' = FadeImpacts(DrainImpacts(impacts, cubes, events),
                                        FrameDelta(elapsed))
              /\ marksDropped' = Len(events) - accepted
              /\ cubes' = kept
              /\ danglingReads' = (CubeBodies(cubes) \ bodies)
                                    \cup (CubeBodies(kept) \ atRender)
              /\ removedEarly' = bodies \ atRender
              /\ bodies' = bodies \ removed
              /\ lastReader' = "render"
              /\ lastElapsed' = elapsed
              /\ frameAdvanced' = r.advanced
              \* every substep copies each cube's transform to prevX, prevY,
              \* prevAngle and then steps the world
              /\ lagging' = (IF r.steps > 0 THEN CubeBodies(cubes)
                                            ELSE lagging) \ removed
  /\ UNCHANGED <<world, goodbyes, nextBody, goodbyeReturn, containVars>>
  /\ UNCHANGED <<lootVars, rollVars, restVars>>

\* the pointerdown listener installed by setupPulseInteraction
pointerdown ==
  /\ world
  /\ Len(cubes) > 0
  /\ danglingReads' = CubeBodies(cubes) \ bodies
  /\ lastReader' = "pulse"
  /\ UNCHANGED <<world, cubes, goodbyeMode, goodbyeGravityRestored,
                 ceilingCollider, gravity, goodbyes, bodies, nextBody,
                 goodbyeReturn, accumulator, impacts, frameSteps, frameAlpha,
                 removedEarly, marksDropped, lastElapsed, frameAdvanced, lagging,
                 containVars>>
  /\ UNCHANGED <<lootVars, rollVars, restVars>>

\* the resize listener installed by initPhysics
resize ==
  /\ world
  /\ danglingReads' = CubeBodies(cubes) \ bodies
  /\ lastReader' = "resize"
  /\ UNCHANGED <<world, cubes, goodbyeMode, goodbyeGravityRestored,
                 ceilingCollider, gravity, goodbyes, bodies, nextBody,
                 goodbyeReturn, accumulator, impacts, frameSteps, frameAlpha,
                 removedEarly, marksDropped, lastElapsed, frameAdvanced, lagging,
                 containVars>>
  /\ UNCHANGED <<lootVars, rollVars, restVars>>

toPhysics(px) == (px * PosScale) \div PIXELS_PER_METER

\* screenBounds after updateScreenBounds, bucketBounds after createFloor
screenBounds ==
  [left |-> SCREEN_EDGE_PADDING, right |-> InnerWidth - SCREEN_EDGE_PADDING,
   top |-> SCREEN_EDGE_PADDING]
bucketBounds == [bottom |-> BucketBottom]

\* variant: the top clamp of the module before it had a Goodbye Sequence
containCubeAlwaysTop(pxX, pxY, physPos, vel) ==
  LET b0 == [x |-> physPos.x, y |-> physPos.y, vx |-> vel.x, vy |-> vel.y]
      b1 == IF pxX < screenBounds.left
            THEN [x |-> toPhysics(screenBounds.left), y |-> physPos.y,
                  vx |-> Abs(vel.x) \div BOUNCE_DAMPING, vy |-> vel.y]
            ELSE IF pxX > screenBounds.right
            THEN [x |-> toPhysics(screenBounds.right), y |-> physPos.y,
                  vx |-> -(Abs(vel.x) \div BOUNCE_DAMPING), vy |-> vel.y]
            ELSE b0
      b2 == IF pxY < screenBounds.top
            THEN [x |-> physPos.x, y |-> toPhysics(screenBounds.top),
                  vx |-> vel.x, vy |-> Abs(vel.y) \div BOUNCE_DAMPING]
            ELSE b1
  IN  IF pxY > bucketBounds.bottom
      THEN [x |-> physPos.x, y |-> toPhysics(bucketBounds.bottom),
            vx |-> vel.x, vy |-> -(Abs(vel.y) \div BOUNCE_DAMPING)]
      ELSE b2

\* containCube: the body's translation and linvel when it returns; every
\* branch writes both from the physPos and vel it was called with
containCube(pxX, pxY, physPos, vel) ==
  LET b0 == [x |-> physPos.x, y |-> physPos.y, vx |-> vel.x, vy |-> vel.y]
      b1 == IF pxX < screenBounds.left
            THEN [x |-> toPhysics(screenBounds.left), y |-> physPos.y,
                  vx |-> Abs(vel.x) \div BOUNCE_DAMPING, vy |-> vel.y]
            ELSE IF pxX > screenBounds.right
            THEN [x |-> toPhysics(screenBounds.right), y |-> physPos.y,
                  vx |-> -(Abs(vel.x) \div BOUNCE_DAMPING), vy |-> vel.y]
            ELSE b0
      b2 == IF ~goodbyeMode /\ pxY < screenBounds.top
            THEN [x |-> physPos.x, y |-> toPhysics(screenBounds.top),
                  vx |-> vel.x, vy |-> Abs(vel.y) \div BOUNCE_DAMPING]
            ELSE b1
  IN  IF pxY > bucketBounds.bottom
      THEN [x |-> physPos.x, y |-> toPhysics(bucketBounds.bottom),
            vx |-> vel.x, vy |-> -(Abs(vel.y) \div BOUNCE_DAMPING)]
      ELSE b2

\* render's call of containCube on one cube of the list
ContainCall(pxX, pxY, physPos, vel) ==
  /\ world
  /\ Len(cubes) > 0
  /\ containIn' = [pxX |-> pxX, pxY |-> pxY, x |-> physPos.x, y |-> physPos.y,
                   vx |-> vel.x, vy |-> vel.y, goodbye |-> goodbyeMode]
  /\ containOut' = containCube(pxX, pxY, physPos, vel) @@ [pxX |-> pxX,
                     pxY |-> pxY, goodbye |-> goodbyeMode]
  /\ UNCHANGED <<world, cubes, goodbyeMode, goodbyeGravityRestored,
                 ceilingCollider, gravity, goodbyes, bodies, nextBody,
                 goodbyeReturn, frameVars, resizeIn, resizeOut>>
  /\ UNCHANGED <<lootVars, rollVars, restVars>>

toPixels(m) == (m * PIXELS_PER_METER) \div PosScale

\* variant: a clamped cube keeps its velocity
resizeCubeKeepVelocity(pos, vel, innerWidth, bottom) ==
  LET left == SCREEN_EDGE_PADDING
      right == innerWidth - SCREEN_EDGE_PADDING
      top == SCREEN_EDGE_PADDING
      pxX == toPixels(pos.x)
      pxY == toPixels(pos.y)
      newX == IF pxX < left THEN toPhysics(left + RESIZE_INSET)
              ELSE IF pxX > right THEN toPhysics(right - RESIZE_INSET)
              ELSE pos.x
      newY == IF pxY < top THEN toPhysics(top + RESIZE_INSET)
              ELSE IF pxY > bottom THEN toPhysics(bottom - RESIZE_INSET)
              ELSE pos.y
  IN  [x |-> newX, y |-> newY, vx |-> vel.x, vy |-> vel.y]

\* the body of a cube when resize returns: updateScreenBounds and createFloor
\* have taken the bounds from innerWidth and the bucket's rectangle
resizeCube(pos, vel, innerWidth, bottom) ==
  LET left == SCREEN_EDGE_PADDING
      right == innerWidth - SCREEN_EDGE_PADDING
      top == SCREEN_EDGE_PADDING
      pxX == toPixels(pos.x)
      pxY == toPixels(pos.y)
      newX == IF pxX < left THEN toPhysics(left + RESIZE_INSET)
              ELSE IF pxX > right THEN toPhysics(right - RESIZE_INSET)
              ELSE pos.x
      newY == IF pxY < top THEN toPhysics(top + RESIZE_INSET)
              ELSE IF pxY > bottom THEN toPhysics(bottom - RESIZE_INSET)
              ELSE pos.y
      clamped == pxX < left \/ pxX > right \/ pxY < top \/ pxY > bottom
  IN  IF clamped
      THEN [x |-> newX, y |-> newY, vx |-> 0, vy |-> 0]
      ELSE [x |-> pos.x, y |-> pos.y, vx |-> vel.x, vy |-> vel.y]

\* the resize listener, with the transform the engine reports for a cube of
\* the list and the window it is resized to
resizeCall(pos, vel, innerWidth, bottom) ==
  /\ world
  /\ Len(cubes) > 0
  /\ resizeIn' = [x |-> pos.x, y |-> pos.y, vx |-> vel.x, vy |-> vel.y,
                  innerWidth |-> innerWidth, bottom |-> bottom]
  /\ resizeOut' = resizeCube(pos, vel, innerWidth, bottom)
                    @@ [innerWidth |-> innerWidth, bottom |-> bottom]
  /\ danglingReads' = CubeBodies(cubes) \ bodies
  /\ lastReader' = "resize"
  /\ UNCHANGED <<world, cubes, goodbyeMode, goodbyeGravityRestored,
                 ceilingCollider, gravity, goodbyes, bodies, nextBody,
                 goodbyeReturn, accumulator, impacts, frameSteps, frameAlpha,
                 removedEarly, marksDropped, lastElapsed, frameAdvanced, lagging,
                 containIn, containOut>>
  /\ UNCHANGED <<lootVars, rollVars, restVars>>

\* getCubeCount
getCubeCount ==
  /\ cubeCountReturn' = Len(cubes)
  /\ UNCHANGED <<physInit, partInit, threw, activeReturn>>
  /\ UNCHANGED <<lootVars, physVars, rollVars, appVars, partVars>>

\* isGoodbyeActive
isGoodbyeActive ==
  /\ activeReturn' = IF goodbyeMode THEN "true" ELSE "false"
  /\ UNCHANGED <<physInit, partInit, threw, cubeCountReturn>>
  /\ UNCHANGED <<lootVars, physVars, rollVars, appVars, partVars>>

\* how the promise of initPhysics settles: false without the canvas or its
\* context; await RAPIER.init() stands outside any try, so its rejection
\* rejects the promise
initOutcome(canvasFound, ctxFound, engineLoads) ==
  IF ~canvasFound \/ ~ctxFound THEN "false"
  ELSE IF ~engineLoads THEN "rejected"
  ELSE "true"

\* initPhysics; when it succeeds it creates the world and runs the first
\* frame, which measures no elapsed time
initPhysics(canvasFound, ctxFound, engineLoads) ==
  /\ physInit = "none"
  /\ physInit' = initOutcome(canvasFound, ctxFound, engineLoads)
  /\ world' = (physInit' = "true")
  /\ IF physInit' = "true"
     THEN \E r \in {FrameStep(accumulator, 0)} :
            /\ accumulator' = r.accumulator
            /\ frameSteps' = r.steps
            /\ frameAlpha' = r.alpha
            /\ frameAdvanced' = r.advanced
            /\ lastElapsed' = 0
            /\ lastReader' = "render"
     ELSE UNCHANGED <<accumulator, frameSteps, frameAlpha, frameAdvanced,
                      lastElapsed, lastReader>>
  /\ UNCHANGED <<cubes, goodbyeMode, goodbyeGravityRestored, ceilingCollider,
                 gravity, goodbyes, bodies, nextBody, goodbyeReturn, impacts,
                 danglingReads, removedEarly, marksDropped, lagging,
                 containVars>>
  /\ UNCHANGED <<partInit, threw, cubeCountReturn, activeReturn>>
  /\ UNCHANGED <<lootVars, rollVars, appVars, partVars>>

\* initParticles
initParticles(canvasFound, ctxFound) ==
  /\ partInit = "none"
  /\ isEnabled' = (canvasFound /\ ctxFound)
  /\ partInit' = IF isEnabled' THEN "true" ELSE "false"
  /\ UNCHANGED <<particles, particlePool, scanlines, scanlinePool,
                 animationId, rafPending, particlesMade, scanlinesMade,
                 peakParticles, peakScanlines, particleCalls>>
  /\ UNCHANGED <<physInit, threw, cubeCountReturn, activeReturn>>
  /\ UNCHANGED <<lootVars, physVars, rollVars, appVars>>

\* a direct call of the exported spawnCube
spawnCubeCall(tier, limit) ==
  /\ calls < limit
  /\ calls' = calls + 1
  /\ cubes' = spawnCube(cubes, tier)
  /\ bodies' = IF Len(cubes') > Len(cubes) THEN bodies \cup {nextBody} ELSE bodies
  /\ nextBody' = IF Len(cubes') > Len(cubes) THEN nextBody + 1 ELSE nextBody
  /\ UNCHANGED <<world, goodbyeMode, goodbyeGravityRestored, ceilingCollider,
                 gravity, goodbyes, goodbyeReturn, frameVars, containVars>>
  /\ UNCHANGED <<dropsInFlight, lootQueue, timers, nextBatch, lastBatch,
                 queuedLog, handedLog, batchSize, spawned, lastReturn,
                 announcement, rollVars, restVars>>

----------------
(* particles.js: pooled particles and scanlines, and their frame loop       *)

\* variant: a new object for every particle, whatever the pool holds
RECURSIVE acquireAllFresh(_, _, _, _)
acquireAllFresh(active, pool, made, lives) ==
  IF lives = <<>> THEN [active |-> active, pool |-> pool, made |-> made]
  ELSE acquireAllFresh(Append(active, [id |-> made + 1, life |-> Head(lives)]),
                       pool, made + 1, Tail(lives))

\* a spawn loop: one acquireParticle (acquireScanline) and push per entry of
\* lives; acquire pops the pool when it holds an object and constructs one
\* otherwise
RECURSIVE acquireAll(_, _, _, _)
acquireAll(active, pool, made, lives) ==
  IF lives = <<>> THEN [active |-> active, pool |-> pool, made |-> made]
  ELSE IF Len(pool) > 0
  THEN acquireAll(Append(active, [id |-> pool[Len(pool)], life |-> Head(lives)]),
                  SubSeq(pool, 1, Len(pool) - 1), made, Tail(lives))
  ELSE acquireAll(Append(active, [id |-> made + 1, life |-> Head(lives)]),
                  pool, made + 1, Tail(lives))

\* variant: an expired object is released but stays in the list
RECURSIVE sweepKeep(_, _, _, _)
sweepKeep(active, pool, i, delta) ==
  IF i > Len(active) THEN [active |-> active, pool |-> pool]
  ELSE IF active[i].life - delta <= 0
  THEN sweepKeep([active EXCEPT ![i].life = @ - delta],
                 Append(pool, active[i].id), i + 1, delta)
  ELSE sweepKeep([active EXCEPT ![i].life = @ - delta], pool, i + 1, delta)

\* variant: the index moves on after a removal, past the swapped-in object
RECURSIVE sweepSkip(_, _, _, _)
sweepSkip(active, pool, i, delta) ==
  IF i > Len(active) THEN [active |-> active, pool |-> pool]
  ELSE IF active[i].life - delta <= 0
  THEN sweepSkip(SubSeq([active EXCEPT ![i] = active[Len(active)]],
                        1, Len(active) - 1),
                 Append(pool, active[i].id), i + 1, delta)
  ELSE sweepSkip([active EXCEPT ![i].life = @ - delta], pool, i + 1, delta)

\* the while loop of animate over one list, from index i: life -= delta, and
\* an expired object is released, overwritten by the last one and popped
RECURSIVE sweep(_, _, _, _)
sweep(active, pool, i, delta) ==
  IF i > Len(active) THEN [active |-> active, pool |-> pool]
  ELSE IF active[i].life - delta <= 0
  THEN sweep(SubSeq([active EXCEPT ![i] = active[Len(active)]],
                    1, Len(active) - 1),
             Append(pool, active[i].id), i, delta)
  ELSE sweep([active EXCEPT ![i].life = @ - delta], pool, i + 1, delta)

\* variant: a spawn call starts the loop whatever animationId holds
startsLoopAlways(id) == TRUE

\* if (!animationId) in the spawn functions
startsLoop(id) == ~id

\* animate of particles.js on the lists ps and ss, with pending callbacks:
\* the lists, the pools, animationId and the callbacks pending when it ends
particlesAnimate(ps, pp, ss, sp, pending, delta) ==
  LET p == sweep(ps, pp, 1, delta)
      s == sweep(ss, sp, 1, delta)
      again == Len(p.active) > 0 \/ Len(s.active) > 0
  IN  [particles |-> p.active, particlePool |-> p.pool,
       scanlines |-> s.active, scanlinePool |-> s.pool,
       animationId |-> again,
       rafPending |-> IF again THEN pending + 1 ELSE pending]

\* the end of both spawn functions: the lists after the pushes, the loop
\* started when startsLoop says so
SpawnEnds(p, s) ==
  \E f \in {IF startsLoop(animationId)
             THEN particlesAnimate(p.active, p.pool, s.active, s.pool,
                                   rafPending, 0)
             ELSE [particles |-> p.active, particlePool |-> p.pool,
                   scanlines |-> s.active, scanlinePool |-> s.pool,
                   animationId |-> animationId, rafPending |-> rafPending]} :
    /\ particles' = f.particles
    /\ particlePool' = f.particlePool
    /\ scanlines' = f.scanlines
    /\ scanlinePool' = f.scanlinePool
    /\ animationId' = f.animationId
    /\ rafPending' = f.rafPending
    /\ particlesMade' = p.made
    /\ scanlinesMade' = s.made
    /\ peakParticles' = Max(peakParticles, Len(p.active))
    /\ peakScanlines' = Max(peakScanlines, Len(s.active))

\* spawnSparkles: lives holds the life of each of the 2 or 3 sparkles
spawnSparkles(lives) ==
  /\ particleCalls < MaxParticleCalls
  /\ particleCalls' = particleCalls + 1
  /\ IF ~isEnabled
     THEN UNCHANGED <<particles, particlePool, scanlines, scanlinePool,
                      animationId, rafPending, particlesMade, scanlinesMade,
                      peakParticles, peakScanlines>>
     ELSE SpawnEnds(acquireAll(particles, particlePool, particlesMade, lives),
                    [active |-> scanlines, pool |-> scanlinePool,
                     made |-> scanlinesMade])
  /\ UNCHANGED <<isEnabled, lootVars, physVars, rollVars, appVars, initVars>>

\* spawnParticles: PARTICLE_COUNT particles and PARTICLE_SCANLINES scanlines
spawnParticles(lives, scanLives) ==
  /\ particleCalls < MaxParticleCalls
  /\ particleCalls' = particleCalls + 1
  /\ IF ~isEnabled
     THEN UNCHANGED <<particles, particlePool, scanlines, scanlinePool,
                      animationId, rafPending, particlesMade, scanlinesMade,
                      peakParticles, peakScanlines>>
     ELSE SpawnEnds(acquireAll(particles, particlePool, particlesMade, lives),
                    acquireAll(scanlines, scanlinePool, scanlinesMade,
                               scanLives))
  /\ UNCHANGED <<isEnabled, lootVars, physVars, rollVars, appVars, initVars>>

\* a pending animation-frame callback runs animate
ParticleFrame(delta) ==
  /\ rafPending > 0
  /\ \E f \in {particlesAnimate(particles, particlePool, scanlines,
                                 scanlinePool, rafPending - 1, delta)} :
       /\ particles' = f.particles
       /\ particlePool' = f.particlePool
       /\ scanlines' = f.scanlines
       /\ scanlinePool' = f.scanlinePool
       /\ animationId' = f.animationId
       /\ rafPending' = f.rafPending
  /\ UNCHANGED <<isEnabled, particlesMade, scanlinesMade, peakParticles,
                 peakScanlines, particleCalls>>
  /\ UNCHANGED <<lootVars, physVars, rollVars, appVars, initVars>>

----------------------------------------------------------------------------
(* The scheduler under arbitrary callers: any interleaving of spawnLoot,    *)
(* spawnConsolationLoot, timers and the passing of time                     *)

Next ==
  \/ \E d \in SchedDieSizes, r \in 0..MaxRoll :
       \E rolls \in RollDraws(r, SchedRolls) : spawnLoot(d, r, rolls)
  \/ \E n \in SchedTrashCounts, z \in BOOLEAN : spawnConsolationLoot(n, z)
  \/ FireTimer
  \/ \E d \in AdvanceSteps : Advance(d)

Spec == Init /\ [][Next]_vars

\* timers keep firing
FairSpec == Spec /\ WF_vars(FireTimer)

----------------------------------------------------------------------------
(* One batch followed to its end, over every tier combination: the batch is *)
(* started directly, or dequeued behind a one-drop consolation batch        *)

FireTimerBatch ==
  \E rolls \in RollDraws(QueuedRollCount, BatchRolls) : FireTimerWith(rolls)

NextBatch ==
  \/ /\ calls = 0
     /\ \E d \in BatchDieSizes, r \in 0..MaxBatchRoll :
          \E rolls \in RollDraws(r, BatchRolls) : spawnLoot(d, r, rolls)
  \/ /\ calls = 0
     /\ \E n \in 1..3, z \in BOOLEAN : spawnConsolationLoot(n, z)
  \/ /\ calls = 1
     /\ dropsInFlight > 0
     /\ lastBatch.kind = "consolation" /\ Len(lastBatch.drops) = 1
     /\ \E d \in BatchDieSizes, r \in 0..MaxBatchRoll : spawnLoot(d, r, <<>>)
  \/ FireTimerBatch

SpecBatch == Init /\ [][NextBatch]_vars

----------------------------------------------------------------------------
(* The scheduler together with the Goodbye Sequence and the frame loop      *)

InitGoodbye ==
  /\ InitLoot
  /\ InitPhysWith(FALSE) \/ InitPhysWith(TRUE)
  /\ rollIn = NoRoll
  /\ rollOut = NoResult
  /\ InitRest

NextGoodbye ==
  \/ /\ calls < MaxGoodbyeCalls
     /\ \E d \in SchedDieSizes, r \in 0..MaxRoll :
          \E rolls \in RollDraws(r, SchedRolls) : spawnLoot(d, r, rolls)
  \/ /\ calls < MaxGoodbyeCalls
     /\ \E n \in SchedTrashCounts, z \in BOOLEAN : spawnConsolationLoot(n, z)
  \/ FireTimer
  \/ triggerGoodbye
  \/ \E e \in FrameElapsed, a \in FrameSets(Len(cubes)), s \in FrameSets(Len(cubes)),
        f \in FrameSets(Len(cubes)) : animate(e, a, <<>>, s, f)

SpecGoodbye == InitGoodbye /\ [][NextGoodbye]_vars

----------------------------------------------------------------------------
(* rollTier on every die size and every roll value *)

InitRoll ==
  /\ InitLoot
  /\ InitPhys
  /\ rollIn \in [dieSize : DieSizes, roll : RollValues]
  /\ rollOut = NoResult
  /\ InitRest

RollTierCall ==
  /\ rollOut = NoResult
  /\ rollOut' = rollTierTrace(rollIn.dieSize, rollIn.roll)
  /\ UNCHANGED <<rollIn, lootVars, physVars, restVars>>

NextRoll == RollTierCall

SpecRoll == InitRoll /\ [][NextRoll]_vars

----------------------------------------------------------------------------
(* The physics module under arbitrary callers: direct spawnCube calls,      *)
(* triggerGoodbye, frames, pointer pulses and resizes                       *)

\* A frame reads the cubes' heights only while RISING, their speeds only
\* while the sequence is active and the pop progress only of popping cubes:
\* the engine's report is enumerated where the frame reads it.
AboveReports ==
  IF goodbyeMode /\ ~goodbyeGravityRestored
  THEN FrameSets(Len(cubes)) ELSE {{}}
SlowReports == IF goodbyeMode THEN FrameSets(Len(cubes)) ELSE {{}}
FinishedReports ==
  IF \E i \in 1..Len(cubes) : cubes[i].popping
  THEN FrameSets(Len(cubes)) ELSE {{}}

\* collisions are reported once the marks of the earlier ones have faded
EventReports ==
  IF impacts = <<>> THEN EventLists(Len(cubes), ceilingCollider) ELSE {<<>>}

Frame ==
  \E e \in FrameElapsed, a \in AboveReports, ev \in EventReports,
     s \in SlowReports, f \in FinishedReports :
    animate(e, a, ev, s, f)

NextFrames ==
  \/ \E t \in FrameTiers : spawnCubeCall(t, MaxCubes)
  \/ triggerGoodbye
  \/ Frame
  \/ pointerdown
  \/ resize

SpecFrames == Init /\ [][NextFrames]_vars

\* The frame loop alone, with frames of every length
StepElapsed == {0, 1, 50, 100, 149, 150, 151, 200, 3000}

StepFrame == \E e \in StepElapsed : animate(e, {}, <<>>, {}, {})

NextStep ==
  \/ \E t \in FrameTiers : spawnCubeCall(t, MaxCubes)
  \/ StepFrame

SpecStep == Init /\ [][NextStep]_vars

\* Containment of a cube of the list, before and during a Goodbye Sequence
Contain ==
  \E pxX \in ContainPxX, pxY \in ContainPxY, x \in ContainPosX,
     y \in ContainPosY, vx \in ContainVelX, vy \in ContainVelY :
    ContainCall(pxX, pxY, [x |-> x, y |-> y], [x |-> vx, y |-> vy])

NextContain ==
  \/ \E t \in FrameTiers : spawnCubeCall(t, MaxCubes)
  \/ triggerGoodbye
  \/ Contain

SpecContain == Init /\ [][NextContain]_vars

\* Resizes of the window over a cube of the list, before and during a
\* Goodbye Sequence
Resize ==
  \E x \in ResizePosX, y \in ResizePosY, vx \in ResizeVelX,
     vy \in ResizeVelY, w \in ResizeWidths, b \in ResizeBottoms :
    resizeCall([x |-> x, y |-> y], [x |-> vx, y |-> vy], w, b)

NextResize ==
  \/ \E t \in FrameTiers : spawnCubeCall(t, MaxCubes)
  \/ triggerGoodbye
  \/ Resize

SpecResize == Init /\ [][NextResize]_vars

\* A full bucket: once MaxImpactCubes cubes are in, they keep hitting the
\* floor, or the ceiling of a Goodbye Sequence they do not get out of, all in
\* the same frames of DELTA_CAP_MS
ImpactReports ==
  IF Len(cubes) = MaxImpactCubes
  THEN {ev \in EventLists(Len(cubes), ceilingCollider) :
          Len(ev) \in {0, Len(cubes)}}
  ELSE {<<>>}

ImpactFrame == \E ev \in ImpactReports : animate(DELTA_CAP_MS, {}, ev, {}, {})

NextImpacts ==
  \/ \E t \in FrameTiers : spawnCubeCall(t, MaxImpactCubes)
  \/ triggerGoodbye
  \/ ImpactFrame

SpecImpacts == Init /\ [][NextImpacts]_vars

\* Particle bursts and sparkles with mixed lives, and their frames
SparkleBursts == {<<2, 3>>, <<3, 2, 2>>, <<2, 2, 3>>}
ParticleBursts ==
  {[i \in 1..PARTICLE_COUNT |-> 2],
   [i \in 1..PARTICLE_COUNT |-> IF i % 3 = 0 THEN 4 ELSE 2],
   [i \in 1..PARTICLE_COUNT |-> IF i % 2 = 0 THEN 2 ELSE 4]}
ScanlineBursts ==
  {[i \in 1..PARTICLE_SCANLINES |-> IF i = 1 THEN a ELSE 2] :
     a \in ScanlineLives}

NextParticles ==
  \/ \E l \in SparkleBursts : spawnSparkles(l)
  \/ \E l \in ParticleBursts, sl \in ScanlineBursts : spawnParticles(l, sl)
  \/ \E d \in ParticleDeltas : ParticleFrame(d)

SpecParticles == Init /\ [][NextParticles]_vars

\* Start-up with a page that may lack the canvases and an engine that may
\* fail to load, and the exported functions called afterwards
InitBoot ==
  /\ InitLoot
  /\ InitPhysWith(FALSE)
  /\ rollIn = NoRoll
  /\ rollOut = NoResult
  /\ InitParticles(FALSE)
  /\ physInit = "none"
  /\ partInit = "none"
  /\ threw = FALSE
  /\ cubeCountReturn = -1
  /\ activeReturn = "none"
  /\ InitApp

Booted == physInit # "none" /\ partInit # "none"

NextBoot ==
  \/ \E c \in BOOLEAN, x \in BOOLEAN, l \in BOOLEAN : initPhysics(c, x, l)
  \/ \E c \in BOOLEAN, x \in BOOLEAN : initParticles(c, x)
  \/ Booted /\ \E t \in FrameTiers : spawnCubeCall(t, MaxCubes)
  \/ Booted /\ triggerGoodbye
  \/ Booted /\ getCubeCount
  \/ Booted /\ isGoodbyeActive
  \/ Booted /\ \E l \in SparkleBursts : spawnSparkles(l)
  \/ Booted /\ \E l \in ParticleBursts, sl \in ScanlineBursts :
                  spawnParticles(l, sl)

SpecBoot == InitBoot /\ [][NextBoot]_vars

\* Frames keep running (requestAnimationFrame re-arms every frame), and the
\* engine lets an active sequence advance: a frame finds every cube above the
\* halfway line, a cube hits the floor or slows down, or the pop animation of
\* a cube runs its full duration.
GoodbyeProgress ==
  /\ Frame
  /\ goodbyeMode
  /\ <<goodbyeMode, goodbyeGravityRestored, cubes>>'
       # <<goodbyeMode, goodbyeGravityRestored, cubes>>

FairSpecFrames == SpecFrames /\ WF_vars(GoodbyeProgress)

----------------------------------------------------------------------------
(* Properties *)

\* the batches that still have drops waiting on their stagger timers
PendingBatches ==
  {timers[i].batch : i \in {j \in 1..Len(timers) : timers[j].kind = "drop"}}

\* number of drops of batch b still waiting on their stagger timers
PendingDrops(b) ==
  Cardinality({i \in 1..Len(timers) :
                 timers[i].kind = "drop" /\ timers[i].batch = b})

\* the tiers batch b scheduled: those already spawned, then those waiting
ScheduledTiers(b) ==
  LET waiting == SelectSeq(timers, LAMBDA t : t.kind = "drop" /\ t.batch = b)
  IN  spawned[b] \o [i \in 1..Len(waiting) |-> waiting[i].tier]

RECURSIVE SpawnCallsUpTo(_)
SpawnCallsUpTo(b) == IF b = 0 THEN 0 ELSE SpawnCallsUpTo(b - 1) + Len(spawned[b])
\* number of spawnCube calls made so far
SpawnCalls == SpawnCallsUpTo(MaxCalls)

\* this step ran the stagger callback of a drop
DropFired == \E b \in BatchIds : Len(spawned'[b]) = Len(spawned[b]) + 1

CountOf(s, v) == Cardinality({i \in 1..Len(s) : s[i] = v})

NonIncreasing(s) == \A i \in 1..(Len(s) - 1) : s[i] >= s[i + 1]

RECURSIVE CumWeight(_, _)
CumWeight(w, t) == IF t = 0 THEN 0 ELSE CumWeight(w, t - 1) + w[t]

TabledDieSizes == {4, 6, 8, 10, 12, 20, 100}

\* the tiers whose cumulative weight bracket contains roll
Bracket(w, roll) ==
  {t \in Tiers : CumWeight(w, t - 1) <= roll /\ roll < CumWeight(w, t)}

\* C1: a batch started by spawnLoot or by a dequeue starts only when no
\* earlier batch has drops still waiting on their stagger timers.
C1_OneBatchStaggering ==
  [][(nextBatch' # nextBatch /\ lastBatch'.kind = "loot")
       => PendingBatches = {}]_vars

\* C2: the requests pushed on lootQueue are handed to processLootDrop in push
\* order, none twice, none skipped: the requests handed so far followed by
\* those still queued are exactly the requests pushed, in call order.
C2_QueueFifo ==
  /\ queuedLog = handedLog \o lootQueue
  /\ \A i, j \in 1..Len(queuedLog) : i < j => queuedLog[i].id < queuedLog[j].id

C2_TwoQueuedHanded == Len(handedLog) >= 2 /\ lootQueue = <<>>

\* C3 as claimed: with the physics world initialised, every stagger callback
\* adds exactly one cube to the cube list, whatever happened before it.
C3_DropAlwaysAddsCube ==
  [][(DropFired /\ world) => Len(cubes') = Len(cubes) + 1]_vars

\* C3 amended: every stagger callback calls spawnCube once; the call appends
\* one cube of the drop's tier when the world exists and the Goodbye Sequence
\* is not active, and leaves the cube list unchanged otherwise.
C3_DropAddsCubeUnlessGoodbye ==
  [][DropFired =>
       cubes' = IF world /\ ~goodbyeMode
                THEN Append(cubes, Cube(Head(timers).tier))
                ELSE cubes]_vars

C3_DropFiredDuringGoodbye ==
  /\ world /\ goodbyeMode /\ ~goodbyeGravityRestored /\ goodbyes = 1
  /\ SpawnCalls > Len(cubes)

\* C4: while timers keep firing, the scheduler is idle again and again:
\* lootQueue is empty and dropsInFlight is 0, so every queued request has been
\* dequeued.
C4_QueueDrains == []<>(lootQueue = <<>> /\ dropsInFlight = 0)

C4_QueuedThenDrained ==
  /\ handedLog # <<>> /\ lootQueue = <<>>
  /\ dropsInFlight = 0 /\ timers = <<>>

\* C5: in a loot batch whose tiers are all 6 or 7 exactly one element, one
\* holding the minimum, is lowered by exactly 1; a batch with a tier of 5 or
\* lower is unchanged.
C5_PityRule ==
  lastBatch.kind = "loot" =>
    LET r == lastBatch.rolled
        d == lastBatch.drops
    IN  /\ Len(d) = Len(r)
        /\ IF \A i \in 1..Len(r) : r[i] \in {TIER_ZZZ, TIER_TRASH}
           THEN \E k \in 1..Len(r) :
                  /\ \A j \in 1..Len(r) : r[k] <= r[j]
                  /\ d[k] = r[k] - 1
                  /\ \A j \in 1..Len(r) : j # k => d[j] = r[j]
           ELSE d = r

C5_PityApplied ==
  /\ lastBatch.kind = "loot"
  /\ Len(lastBatch.rolled) >= 3
  /\ lastBatch.rolled[1] = TIER_TRASH
  /\ CountOf(lastBatch.rolled, TIER_ZZZ) >= 1
  /\ \A i \in 1..Len(lastBatch.rolled) : lastBatch.rolled[i] >= TIER_ZZZ
  /\ CountOf(lastBatch.drops, 5) = 1

\* C6: within a batch spawnCube is called once per drop and the tiers passed
\* are in non-increasing order.
C6_WorstTierFirst ==
  \A b \in BatchIds :
    /\ NonIncreasing(spawned[b])
    /\ Len(spawned[b]) + PendingDrops(b) = batchSize[b]

C6_MixedBatchSpawned ==
  \E b \in BatchIds :
    /\ lastBatch.id = b
    /\ lastBatch.drops # lastBatch.sorted
    /\ batchSize[b] >= 3
    /\ Len(spawned[b]) = batchSize[b]
    /\ spawned[b][1] > spawned[b][Len(spawned[b])]

\* C7: rollTier returns the one tier whose cumulative weight bracket contains
\* the roll, read from the die's table, or from the d20 table when the die
\* size has none.
C7_RollTierBracket ==
  rollOut # NoResult =>
    LET w == IF rollIn.dieSize \in TabledDieSizes
             THEN RARITY_WEIGHTS[rollIn.dieSize] ELSE RARITY_WEIGHTS[20]
    IN  Bracket(w, rollIn.roll) = {rollOut.tier}

C7_BracketBoundary ==
  /\ rollIn = [dieSize |-> 7, roll |-> 60]
  /\ rollOut.tier = 3

\* C8: the weights of each of the seven die sizes sum to 100, and rollTier
\* never leaves its loop through the final 'return 7'.
C8_WeightsSumTo100 ==
  /\ \A d \in TabledDieSizes :
       d \in DOMAIN RARITY_WEIGHTS
         /\ CumWeight(RARITY_WEIGHTS[d], 7) = 100 * RollScale
  /\ rollOut # NoResult => ~rollOut.fallback

C8_LargestRoll ==
  /\ rollIn = [dieSize |-> 4, roll |-> 100 * RollScale - 1]
  /\ rollOut = [tier |-> 7, fallback |-> FALSE]

\* C9 as claimed: every loot batch has rollResult + 1 drops and at least one
\* tier-7 drop.
C9_BatchHasTrash ==
  lastBatch.kind = "loot" =>
    /\ Len(ScheduledTiers(lastBatch.id)) = lastBatch.rollResult + 1
    /\ CountOf(ScheduledTiers(lastBatch.id), TIER_TRASH) >= 1

\* C9 amended: every loot batch has rollResult + 1 drops; it has at least one
\* tier-7 drop when rollResult >= 1, and is the single tier-6 drop when
\* rollResult = 0.
C9_BatchSizeAndTrash ==
  lastBatch.kind = "loot" =>
    /\ Len(ScheduledTiers(lastBatch.id)) = lastBatch.rollResult + 1
    /\ lastBatch.rollResult >= 1
         => CountOf(ScheduledTiers(lastBatch.id), TIER_TRASH) >= 1
    /\ lastBatch.rollResult = 0
         => ScheduledTiers(lastBatch.id) = <<TIER_ZZZ>>

C9_DequeuedBatch ==
  /\ handedLog # <<>>
  /\ lastBatch.kind = "loot"
  /\ lastBatch.rollResult >= 2
  /\ CountOf(ScheduledTiers(lastBatch.id), TIER_TRASH) = 1

\* C10: a consolation batch is 1 to 3 tier-7 drops plus at most one tier-6
\* drop, nothing upgraded, and the value returned is the smallest tier
\* scheduled.
C10_Consolation ==
  lastBatch.kind = "consolation" =>
    LET s == ScheduledTiers(lastBatch.id) IN
    /\ CountOf(s, TIER_TRASH) \in 1..3
    /\ CountOf(s, TIER_ZZZ) <= 1
    /\ Len(s) = CountOf(s, TIER_TRASH) + CountOf(s, TIER_ZZZ)
    /\ lastReturn = IF CountOf(s, TIER_ZZZ) = 1 THEN TIER_ZZZ ELSE TIER_TRASH
    /\ \A i \in 1..Len(s) : lastReturn <= s[i]
    /\ \E i \in 1..Len(s) : lastReturn = s[i]

C10_FullConsolation ==
  /\ lastBatch.kind = "consolation"
  /\ lastReturn = TIER_ZZZ
  /\ batchSize[lastBatch.id] = 4
  /\ Len(spawned[lastBatch.id]) = 4

\* the state of the Goodbye Sequence
GoodbyeState ==
  IF ~goodbyeMode THEN "NORMAL"
  ELSE IF goodbyeGravityRestored THEN "RESTORED" ELSE "RISING"

\* this step is a direct spawnCube call
SpawnCubeCalled == calls' = calls + 1 /\ UNCHANGED <<nextBatch, timers>>

\* this step is a triggerGoodbye call
GoodbyeCalled == goodbyes' = goodbyes + 1

\* C11: a spawnCube call made while the Goodbye Sequence is active changes
\* neither the cube list, nor the world and its bodies, nor the goodbye state.
C11_SpawnRejectedInGoodbye ==
  [][(SpawnCubeCalled /\ goodbyeMode) =>
       UNCHANGED <<cubes, world, bodies, nextBody, goodbyeMode,
                   goodbyeGravityRestored, ceilingCollider, gravity>>]_vars

C11_CallDuringGoodbye == world /\ goodbyeMode /\ calls > nextBody - 1

\* C12: triggerGoodbye returns false and changes nothing when the sequence is
\* active or the cube list is empty; otherwise it returns true, creates the
\* ceiling collider, turns gravity upward and enters RISING.
C12_TriggerGoodbye ==
  [][GoodbyeCalled =>
       IF goodbyeMode \/ Len(cubes) = 0
       THEN /\ goodbyeReturn' = "false"
            /\ UNCHANGED <<gravity, ceilingCollider, goodbyeMode,
                           goodbyeGravityRestored, cubes, bodies>>
       ELSE /\ goodbyeReturn' = "true"
            /\ ceilingCollider'
            /\ gravity' = "up"
            /\ GoodbyeState' = "RISING"
            /\ UNCHANGED <<cubes, bodies>>]_vars

C12_SecondCallWhileActive ==
  goodbyes = 2 /\ goodbyeMode /\ goodbyeReturn = "false" /\ gravity = "up"

\* C13: the Goodbye state changes only NORMAL -> RISING, RISING -> RESTORED
\* and RESTORED -> NORMAL, and RISING is left only by a frame in which every
\* cube of the list is above the halfway line.
C13_GoodbyeStateOrder ==
  [][GoodbyeState' # GoodbyeState =>
       \/ GoodbyeState = "NORMAL" /\ GoodbyeState' = "RISING"
       \/ /\ GoodbyeState = "RISING" /\ GoodbyeState' = "RESTORED"
          /\ Frame
          /\ \A e \in FrameElapsed, a \in AboveReports, ev \in EventReports,
                s \in SlowReports, f \in FinishedReports :
               animate(e, a, ev, s, f) => a = 1..Len(cubes)
       \/ GoodbyeState = "RESTORED" /\ GoodbyeState' = "NORMAL"]_vars

C13_SequenceCompleted ==
  /\ GoodbyeState = "NORMAL" /\ goodbyeGravityRestored
  /\ goodbyeReturn = "true" /\ Len(cubes) = 0 /\ bodies = {}

\* C16: while the Goodbye Sequence is inactive gravity is downward and there
\* is no ceiling collider; the sequence becomes inactive only in a frame that
\* finds the cube list empty, and that frame removes the ceiling collider and
\* turns gravity downward.
C16_InactiveIsNormal ==
  /\ [](~goodbyeMode => (gravity = "down" /\ ~ceilingCollider))
  /\ [][(goodbyeMode /\ ~goodbyeMode') =>
          /\ Len(cubes) = 0
          /\ Frame
          /\ ~ceilingCollider' /\ gravity' = "down"]_vars

C16_SequenceEnded ==
  /\ ~goodbyeMode /\ goodbyes >= 1 /\ nextBody > 1 /\ Len(cubes) = 0
  /\ lastReader = "render" /\ gravity = "down" /\ ~ceilingCollider

\* the cube of list cs that owns body b is popping
PoppingIn(cs, b) == \E k \in 1..Len(cs) : cs[k].body = b /\ cs[k].popping

\* C14: once the Goodbye Sequence is active, and while frames keep running, a
\* frame finds every cube above the halfway line and afterwards every cube
\* hits the floor or slows below the settle threshold, every cube eventually
\* has poppingAt set, and the cube count eventually is 0 with the sequence
\* inactive.
C14_GoodbyeCompletes ==
  /\ goodbyeMode ~> (\A i \in 1..Len(cubes) : cubes[i].popping)
  /\ goodbyeMode ~> (Len(cubes) = 0 /\ ~goodbyeMode)

C14_AllCubesPopped ==
  /\ ~goodbyeMode /\ goodbyeReturn = "true" /\ goodbyes = 1
  /\ nextBody = MaxCubes + 1 /\ bodies = {} /\ Len(cubes) = 0

\* C15 as claimed: in a frame that starts in RESTORED, a cube whose poppingAt
\* is unset has it set when a collision of the cube with the floor or with
\* the ceiling is drained, and when its speed is below the settle threshold.
C15_PopOnFloorCeilingOrSlow ==
  [][\A e \in FrameElapsed, a \in AboveReports, ev \in EventReports,
        s \in SlowReports, f \in FinishedReports :
       (GoodbyeState = "RESTORED" /\ animate(e, a, ev, s, f)) =>
         \A i \in 1..Len(cubes) :
           (/\ ~cubes[i].popping
            /\ (i \in s \/ \E j \in 1..Len(ev) : ev[j].cube = i))
             => PoppingIn(cubes', cubes[i].body)]_vars

\* C17: a frame removes the bodies of the cubes it took out of the list only
\* after its render pass, and whoever reads a cube from the list (render, the
\* collision drain, the pointer pulse, resize) finds its body in the world.
C17_BodiesOutliveListEntries ==
  /\ removedEarly = {}
  /\ danglingReads = {}
  /\ CubeBodies(cubes) \subseteq bodies

C17_CubeRemovedOthersRead ==
  /\ Len(cubes) >= 1 /\ Cardinality(bodies) < nextBody - 1
  /\ lastReader \in {"render", "pulse", "resize"}
\* C18: a frame that measured more than DELTA_CAP_MS leaves the accumulator,
\* the substep count and the interpolation factor that a frame of exactly
\* DELTA_CAP_MS leaves from the same prior state, and no frame runs more than
\* MAX_SUBSTEPS substeps.
C18_DeltaCapped ==
  [][/\ frameSteps' <= MAX_SUBSTEPS
     /\ \A e \in StepElapsed :
          (e > DELTA_CAP_MS /\ animate(e, {}, <<>>, {}, {})) =>
            \E atCap \in {FrameStep(accumulator, DELTA_CAP_MS)} :
              /\ accumulator' = atCap.accumulator
              /\ frameSteps' = atCap.steps
              /\ frameAlpha' = atCap.alpha]_vars

\* a frame that measured a minute has run on a partly filled accumulator
C18_LongFrameRan ==
  /\ lastElapsed = 3000
  /\ accumulator = 49
  /\ frameSteps = 3

BeyondLeft == containIn.pxX < SCREEN_EDGE_PADDING
BeyondRight == containIn.pxX > InnerWidth - SCREEN_EDGE_PADDING
BeyondTop == containIn.pxY < SCREEN_EDGE_PADDING
BeyondFloor == containIn.pxY > BucketBottom

\* C19: after a containment pass on a cube beyond exactly one of the left,
\* right and floor boundaries and, outside a Goodbye Sequence, the top
\* boundary, the body is on that boundary on that axis, its velocity normal
\* to the boundary points back with half the magnitude, and the other
\* position and velocity components are unchanged; during a Goodbye Sequence
\* a cube above the top boundary keeps its vertical position and velocity.
C19_Containment ==
  containIn # NoContain =>
    LET top == BeyondTop /\ ~containIn.goodbye
    IN  /\ (BeyondLeft /\ ~BeyondRight /\ ~top /\ ~BeyondFloor) =>
              /\ containOut.x * PIXELS_PER_METER = SCREEN_EDGE_PADDING * PosScale
              /\ containOut.vx >= 0
              /\ 2 * containOut.vx = Abs(containIn.vx)
              /\ containOut.y = containIn.y
              /\ containOut.vy = containIn.vy
        /\ (BeyondRight /\ ~BeyondLeft /\ ~top /\ ~BeyondFloor) =>
              /\ containOut.x * PIXELS_PER_METER
                   = (InnerWidth - SCREEN_EDGE_PADDING) * PosScale
              /\ containOut.vx <= 0
              /\ 2 * containOut.vx = -Abs(containIn.vx)
              /\ containOut.y = containIn.y
              /\ containOut.vy = containIn.vy
        /\ (top /\ ~BeyondLeft /\ ~BeyondRight /\ ~BeyondFloor) =>
              /\ containOut.y * PIXELS_PER_METER = SCREEN_EDGE_PADDING * PosScale
              /\ containOut.vy >= 0
              /\ 2 * containOut.vy = Abs(containIn.vy)
              /\ containOut.x = containIn.x
              /\ containOut.vx = containIn.vx
        /\ (BeyondFloor /\ ~BeyondLeft /\ ~BeyondRight /\ ~top) =>
              /\ containOut.y * PIXELS_PER_METER = BucketBottom * PosScale
              /\ containOut.vy <= 0
              /\ 2 * containOut.vy = -Abs(containIn.vy)
              /\ containOut.x = containIn.x
              /\ containOut.vx = containIn.vx
        /\ (containIn.goodbye /\ BeyondTop /\ ~BeyondFloor) =>
              /\ containOut.y = containIn.y
              /\ containOut.vy = containIn.vy

\* during a Goodbye Sequence, a cube left of the screen and above its top,
\* moving up and to the left, was put on the left boundary only
C19_LeftClampedAboveTop ==
  /\ containIn.goodbye
  /\ containIn.pxX = -100
  /\ containIn.pxY = -5
  /\ containIn.vx = -4
  /\ containIn.vy = -6
  /\ containOut.x = 20
  /\ containOut.vx = 2
  /\ containOut.y = containIn.y
  /\ containOut.vy = -6

\* C20: the impact list never holds more than MAX_IMPACTS marks, and a frame
\* that drains floor or ceiling collisions into a list of MAX_IMPACTS marks
\* adds no mark and leaves the marks what a frame without collisions leaves.
C20_ImpactsBounded ==
  [][/\ Len(impacts) <= MAX_IMPACTS
     /\ Len(impacts') <= MAX_IMPACTS
     /\ \A ev \in ImpactReports :
          (Len(impacts) = MAX_IMPACTS /\ ev # <<>>
             /\ animate(DELTA_CAP_MS, {}, ev, {}, {})) =>
            /\ marksDropped' = Len(ev)
            /\ impacts' = FadeImpacts(impacts, DELTA_CAP_MS)]_vars

\* a frame has drained a collision of every cube into a full list: all were
\* dropped, while the oldest marks faded out
C20_CollisionsOnFullList ==
  /\ Len(cubes) = MaxImpactCubes
  /\ marksDropped = MaxImpactCubes
  /\ Len(impacts) > 0
  /\ Len(impacts) < MAX_IMPACTS
  /\ \E j \in 1..Len(impacts) : impacts[j].surface = "ceiling"

\* C28 as claimed: after a containment pass on a cube beyond a horizontal edge
\* and, at the same time, beyond the floor or (outside a Goodbye Sequence) the
\* top, the body lies within the horizontal and the vertical bounds and both
\* normal velocity components were reflected inward and halved.
C28_CornerContained ==
  containIn # NoContain =>
    LET top == BeyondTop /\ ~containIn.goodbye
    IN  ((BeyondLeft \/ BeyondRight) /\ (top \/ BeyondFloor)) =>
          /\ containOut.x * PIXELS_PER_METER >= SCREEN_EDGE_PADDING * PosScale
          /\ containOut.x * PIXELS_PER_METER
               <= (InnerWidth - SCREEN_EDGE_PADDING) * PosScale
          /\ containOut.y * PIXELS_PER_METER >= SCREEN_EDGE_PADDING * PosScale
          /\ containOut.y * PIXELS_PER_METER <= BucketBottom * PosScale
          /\ 2 * containOut.vx
               = (IF BeyondLeft THEN 1 ELSE -1) * Abs(containIn.vx)
          /\ 2 * containOut.vy
               = (IF BeyondFloor THEN -1 ELSE 1) * Abs(containIn.vy)

\* C29: after every frame the accumulator is at least 0 and below one
\* timestep; the frame runs one substep per whole timestep of accumulated
\* time, at most MAX_SUBSTEPS; every substep snapshots every cube's previous
\* transform and then advances the world by one timestep; and time of a
\* timestep or more left after the loop is discarded.
C29_AccumulatorBelowTimestep ==
  [][\A e \in StepElapsed :
       animate(e, {}, <<>>, {}, {}) =>
         \E total \in {accumulator
                         + (IF e < DELTA_CAP_MS THEN e ELSE DELTA_CAP_MS)} :
         \E left \in {total - frameSteps' * PHYSICS_TIMESTEP} :
           /\ accumulator >= 0 /\ accumulator < PHYSICS_TIMESTEP
           /\ accumulator' >= 0 /\ accumulator' < PHYSICS_TIMESTEP
           /\ frameSteps' \in 0..MAX_SUBSTEPS
           /\ left >= 0
           /\ frameSteps' < MAX_SUBSTEPS => left < PHYSICS_TIMESTEP
           /\ frameAdvanced' = frameSteps' * PHYSICS_TIMESTEP
           /\ frameSteps' > 0 => lagging' = CubeBodies(cubes)
           /\ accumulator' = IF left >= PHYSICS_TIMESTEP THEN 0 ELSE left]_vars

\* a frame of two cubes has run three substeps and kept 49 units
C29_ThreeSubstepsRan ==
  /\ Len(cubes) = 2
  /\ lagging = {1, 2}
  /\ frameSteps = 3
  /\ frameAdvanced = 3 * PHYSICS_TIMESTEP
  /\ accumulator = PHYSICS_TIMESTEP - 1

\* C30 as claimed: on every frame in which the substep cap was not hit, frames
\* without a substep included, the interpolation factor render is called with
\* is the leftover accumulator over the timestep; when the cap was hit with a
\* timestep or more left it is 1; it is always within [0, 1]
\* (PHYSICS_TIMESTEP stands for the factor 1).
C30_AlphaIsLeftover ==
  [][\A e \in StepElapsed :
       animate(e, {}, <<>>, {}, {}) =>
         \E left \in {accumulator
                        + (IF e < DELTA_CAP_MS THEN e ELSE DELTA_CAP_MS)
                        - frameSteps' * PHYSICS_TIMESTEP} :
           /\ frameAlpha' \in 0..PHYSICS_TIMESTEP
           /\ left < PHYSICS_TIMESTEP => frameAlpha' = left
           /\ (frameSteps' = MAX_SUBSTEPS /\ left >= PHYSICS_TIMESTEP)
                => frameAlpha' = PHYSICS_TIMESTEP]_vars

Ids(active) == {active[i].id : i \in 1..Len(active)}
Members(pool) == {pool[i] : i \in 1..Len(pool)}

\* C21: between frames and spawn calls no particle is in both the active
\* list and the free pool and none is twice in either; likewise scanlines.
C21_PoolsDisjoint ==
  /\ Cardinality(Ids(particles) \cup Members(particlePool))
       = Len(particles) + Len(particlePool)
  /\ Cardinality(Ids(scanlines) \cup Members(scanlinePool))
       = Len(scanlines) + Len(scanlinePool)

\* expired particles and scanlines are pooled while others are still active,
\* and a swap has put a later particle before an earlier one
C21_SomeExpiredSomeActive ==
  /\ particlePool # <<>>
  /\ scanlinePool # <<>>
  /\ scanlines # <<>>
  /\ \E i \in 1..(Len(particles) - 1) : particles[i].id > particles[i + 1].id

\* C22: the particles ever constructed are those of the active list and the
\* pool, and their number never exceeds the largest number active at the
\* same time; likewise scanlines.
C22_ConstructedBounded ==
  /\ particlesMade = Len(particles) + Len(particlePool)
  /\ particlesMade <= peakParticles
  /\ scanlinesMade = Len(scanlines) + Len(scanlinePool)
  /\ scanlinesMade <= peakScanlines

\* a burst after expired sparkles reused their objects
C22_BurstReusedSparkles ==
  /\ particleCalls = 2
  /\ Len(particles) = PARTICLE_COUNT
  /\ particlesMade = PARTICLE_COUNT
  /\ scanlinesMade = PARTICLE_SCANLINES

\* C23: a frame of the particle loop is pending exactly when a particle or a
\* scanline is active, never more than one, and animationId is set exactly
\* then; with both lists empty nothing is pending.
C23_OneLoopWhileActive ==
  /\ rafPending \in {0, 1}
  /\ rafPending = 1 <=> (particles # <<>> \/ scanlines # <<>>)
  /\ animationId <=> rafPending = 1

\* the loop has run and stopped: everything expired, nothing pending
C23_LoopStopped ==
  /\ particles = <<>>
  /\ scanlines = <<>>
  /\ particlePool # <<>>
  /\ rafPending = 0
  /\ ~animationId

\* C24: after initPhysics returned false for want of the canvas or its
\* context, spawnCube, triggerGoodbye, getCubeCount and isGoodbyeActive do
\* not throw and leave the cube list empty and goodbye inactive; after
\* initParticles returned false, the spawn functions add no particle and
\* start no loop.
C24_DisabledCallsAreNoOps ==
  /\ physInit = "false" =>
       /\ ~threw
       /\ cubes = <<>>
       /\ bodies = {}
       /\ ~goodbyeMode
       /\ goodbyeReturn # "true"
       /\ cubeCountReturn \in {-1, 0}
       /\ activeReturn # "true"
  /\ partInit = "false" =>
       /\ particles = <<>>
       /\ scanlines = <<>>
       /\ particlesMade = 0
       /\ scanlinesMade = 0
       /\ ~animationId
       /\ rafPending = 0

\* both init calls failed and every exported function was called since
C24_AllCalledWhileDisabled ==
  /\ physInit = "false"
  /\ partInit = "false"
  /\ calls = MaxCubes
  /\ goodbyeReturn = "false"
  /\ cubeCountReturn = 0
  /\ activeReturn = "false"
  /\ particleCalls = MaxParticleCalls

\* C25 as claimed: initPhysics never rejects; when the engine fails to load
\* it resolves to false, and the physics API does nothing afterwards.
C25_InitNeverRejects ==
  /\ physInit # "rejected"
  /\ physInit = "false" => (cubes = <<>> /\ ~goodbyeMode /\ ~threw)

----------------------------------------------------------------------------
(* app.js: the game state machine.  Time advances in animation frames of
   DRAIN_DELTA_CAP_MS; every event happens at a frame boundary. *)

\* the sides that have a shape
DIE_SHAPES == {4, 6, 8, 10, 12, 20, 100}

\* the module's variables as one record, threaded through the calls a handler
\* makes; a handler starts with empty logs
App ==
  [gameState |-> gameState, lootResult |-> lootResult,
   currentDie |-> currentDie, rampedMax |-> rampedMax, energy |-> energy,
   energyDrainFrame |-> energyDrainFrame, pendingFinish |-> pendingFinish,
   isHolding |-> isHolding,
   settlingAnimationFrame |-> settlingAnimationFrame,
   sparkleInterval |-> sparkleInterval, missTimers |-> missTimers,
   lootTimers |-> lootTimers, transitions |-> <<>>, effects |-> <<>>]

SetApp(s) ==
  /\ gameState' = s.gameState
  /\ lootResult' = s.lootResult
  /\ currentDie' = s.currentDie
  /\ rampedMax' = s.rampedMax
  /\ energy' = s.energy
  /\ energyDrainFrame' = s.energyDrainFrame
  /\ pendingFinish' = s.pendingFinish
  /\ isHolding' = s.isHolding
  /\ settlingAnimationFrame' = s.settlingAnimationFrame
  /\ sparkleInterval' = s.sparkleInterval
  /\ missTimers' = s.missTimers
  /\ lootTimers' = s.lootTimers
  /\ transitions' = s.transitions
  /\ effects' = s.effects

validTransitions ==
  [g \in GameState |->
     CASE g = IDLE -> {RAMPING}
       [] g = RAMPING -> {IDLE, RAMPED}
       [] g = RAMPED -> {RAMPING, LOOT_RESOLUTION}
       [] g = LOOT_RESOLUTION -> {IDLE, RAMPING}]

\* variant: the state is assigned without consulting validTransitions
setStateUnchecked(s, newState) ==
  [s EXCEPT !.gameState = newState,
            !.sparkleInterval = (newState = RAMPED),
            !.transitions = Append(@, [from |-> s.gameState, to |-> newState,
                                       returned |-> TRUE])]

\* setState, with updateVisuals starting and stopping the sparkle interval
setState(s, newState) ==
  IF newState \notin validTransitions[s.gameState]
  THEN [s EXCEPT !.transitions =
                   Append(@, [from |-> s.gameState, to |-> newState,
                              returned |-> FALSE])]
  ELSE [s EXCEPT !.gameState = newState,
                 !.sparkleInterval = (newState = RAMPED),
                 !.transitions =
                   Append(@, [from |-> s.gameState, to |-> newState,
                              returned |-> TRUE])]

\* variant: input is accepted in every state
canAcceptInputAlways(s) == TRUE

canAcceptInput(s) ==
  IF s.gameState = LOOT_RESOLUTION THEN s.lootResult = "miss" ELSE TRUE

\* settlingTimeout is never set; the settling animation is cancelled
clearOutlineEffects(s) == [s EXCEPT !.settlingAnimationFrame = -1]

clearSettlingState(s) ==
  LET c == [clearOutlineEffects(s) EXCEPT !.rampedMax = 0,
                                          !.lootResult = "none"]
  IN IF c.gameState = LOOT_RESOLUTION THEN setState(c, IDLE) ELSE c

clearResult(s) == clearSettlingState(s)

\* addEnergy; startEnergyDrain requests the first drain frame
addEnergy(s, amount) ==
  IF ~canAcceptInput(s) THEN s
  ELSE
    LET wasIdle == s.gameState = IDLE
        e == [s EXCEPT !.energy = Min(@ + amount, MAX_ENERGY_MS),
                       !.energyDrainFrame = TRUE,
                       !.pendingFinish = NoFinish]
        t == IF wasIdle \/ (e.gameState = LOOT_RESOLUTION
                            /\ e.lootResult = "miss")
             THEN setState(clearResult(e), RAMPING)
             ELSE e
    IN IF t.gameState = RAMPING /\ t.energy >= MAX_ENERGY_MS
       THEN [setState([t EXCEPT !.rampedMax = t.currentDie + 1], RAMPED)
               EXCEPT !.effects = Append(@, "spawnParticles")]
       ELSE t

selectDie(s, sides) ==
  IF ~canAcceptInput(s) \/ sides \notin DIE_SHAPES \/ sides = s.currentDie
  THEN s
  ELSE
    LET r == IF s.gameState = RAMPED
             THEN setState([s EXCEPT !.rampedMax = 0], RAMPING)
             ELSE s
        c == clearResult([r EXCEPT !.currentDie = sides])
        hadPendingFinish == c.pendingFinish # NoFinish
        p == [c EXCEPT !.pendingFinish = NoFinish]
    IN IF p.gameState = IDLE \/ hadPendingFinish
       THEN addEnergy(p, ENERGY_PER_CLICK_MS)
       ELSE p

\* rampedMax || currentDie
effectiveMax(s) == IF s.rampedMax # 0 THEN s.rampedMax ELSE s.currentDie

\* finishRoll, with result the outcome of randomInt(1, effectiveMax)
finishRoll(s, result) ==
  [s EXCEPT !.pendingFinish = [result |-> result,
                               rolledDie |-> effectiveMax(s)]]

\* variant: the drain loop stops at zero energy without finishing the roll
drainNoFinish(s, delta, result) ==
  LET rate == IF s.isHolding /\ canAcceptInput(s)
              THEN HOLD_DRAIN_RATE ELSE RELEASE_DRAIN_RATE
      drainAmount == (delta * rate) \div DrainScale
      d == [s EXCEPT !.energy = Max(0, @ - drainAmount)]
  IN IF d.energy <= 0
     THEN [d EXCEPT !.energyDrainFrame = FALSE]
     ELSE d

\* one frame of the drain loop
drain(s, delta, result) ==
  LET rate == IF s.isHolding /\ canAcceptInput(s)
              THEN HOLD_DRAIN_RATE ELSE RELEASE_DRAIN_RATE
      drainAmount == (delta * rate) \div DrainScale
      d == [s EXCEPT !.energy = Max(0, @ - drainAmount)]
  IN IF d.energy <= 0
     THEN finishRoll([d EXCEPT !.energyDrainFrame = FALSE], result)
     ELSE d

\* runWinSequence: particles, the settling animation and the loot timeout
runWinSequence(s) ==
  [s EXCEPT !.effects = Append(@, "spawnParticles"),
            !.settlingAnimationFrame = SETTLING_DURATION_MS,
            !.lootTimers = @ \cup {WIN_LOOT_DELAY_MS}]

completeRollFinish(s, finish) ==
  IF s.gameState = RAMPED
  THEN LET isHit == finish.result > s.currentDie
           l == setState([s EXCEPT !.lootResult =
                                     IF isHit THEN "hit" ELSE "miss"],
                         LOOT_RESOLUTION)
       IN IF isHit
          THEN runWinSequence(l)
          ELSE [l EXCEPT !.effects = Append(@, "spawnConsolationLoot"),
                         !.missTimers = @ \cup {MISS_FEEDBACK_MS}]
  ELSE setState([s EXCEPT !.rampedMax = 0], IDLE)

\* one frame of the settling animation: progress reaches 1 when its duration
\* has elapsed
settlingAnimate(s, delta) ==
  IF s.settlingAnimationFrame < 0 THEN s
  ELSE IF s.settlingAnimationFrame > delta
       THEN [s EXCEPT !.settlingAnimationFrame = @ - delta]
       ELSE clearSettlingState(s)

\* the timeouts of a set after delta ms
Elapse(pending, delta) == {Max(0, rem - delta) : rem \in pending}

\* the results of randomInt the frames draw from
RollResults(max) == {1, max - 1, max}

\* An animation frame DRAIN_DELTA_CAP_MS after the previous one: the drain
\* loop and the settling animation run if they had a frame requested.  Due
\* timeouts run before the next frame.
AnimationFrame ==
  /\ 0 \notin missTimers
  /\ 0 \notin lootTimers
  /\ holdInterval # 0
  /\ \E result \in RollResults(effectiveMax(App)) :
       \E d \in {IF energyDrainFrame
                 THEN drain(App, DRAIN_DELTA_CAP_MS, result) ELSE App} :
         \E a \in {settlingAnimate(d, DRAIN_DELTA_CAP_MS)} :
           SetApp([a EXCEPT
                     !.missTimers = Elapse(@, DRAIN_DELTA_CAP_MS),
                     !.lootTimers = Elapse(@, DRAIN_DELTA_CAP_MS)])
  /\ holdInterval' = IF holdInterval > 0
                     THEN Max(0, holdInterval - DRAIN_DELTA_CAP_MS)
                     ELSE holdInterval
  /\ inputsThisFrame' = 0
  /\ UNCHANGED <<pointerIsDown, arrowDown>>
  /\ UNCHANGED <<lootVars, physVars, rollVars, partVars, initVars>>

\* the miss-feedback timeout set by completeRollFinish
MissTimeout ==
  /\ 0 \in missTimers
  /\ SetApp([clearSettlingState(App) EXCEPT !.missTimers = @ \ {0}])
  /\ UNCHANGED <<holdInterval, pointerIsDown, arrowDown, inputsThisFrame>>
  /\ UNCHANGED <<lootVars, physVars, rollVars, partVars, initVars>>

\* the loot-delay timeout set by runWinSequence
LootTimeout ==
  /\ 0 \in lootTimers
  /\ \E s \in {[App EXCEPT !.lootTimers = @ \ {0}]} :
       SetApp(IF s.gameState = LOOT_RESOLUTION /\ s.lootResult = "hit"
              THEN [s EXCEPT !.effects = Append(@, "spawnLoot")]
              ELSE s)
  /\ UNCHANGED <<holdInterval, pointerIsDown, arrowDown, inputsThisFrame>>
  /\ UNCHANGED <<lootVars, physVars, rollVars, partVars, initVars>>

\* the interval set by handlePointerDown
HoldIntervalFires ==
  /\ holdInterval = 0
  /\ SetApp(IF isHolding THEN addEnergy(App, ENERGY_PER_CLICK_MS) ELSE App)
  /\ holdInterval' = HOLD_INTERVAL_MS
  /\ UNCHANGED <<pointerIsDown, arrowDown, inputsThisFrame>>
  /\ UNCHANGED <<lootVars, physVars, rollVars, partVars, initVars>>

\* the animationiteration listener of the die
animationiteration ==
  /\ pendingFinish # NoFinish
  /\ SetApp(completeRollFinish([App EXCEPT !.pendingFinish = NoFinish],
                               pendingFinish))
  /\ UNCHANGED <<holdInterval, pointerIsDown, arrowDown, inputsThisFrame>>
  /\ UNCHANGED <<lootVars, physVars, rollVars, partVars, initVars>>

handlePointerDown ==
  /\ ~pointerIsDown
  /\ inputsThisFrame < MaxInputsPerFrame
  /\ pointerIsDown' = TRUE
  /\ inputsThisFrame' = inputsThisFrame + 1
  /\ IF ~canAcceptInput(App) \/ isHolding
     THEN SetApp(App) /\ UNCHANGED holdInterval
     ELSE /\ SetApp(addEnergy([App EXCEPT !.isHolding = TRUE],
                              ENERGY_PER_CLICK_MS))
          /\ holdInterval' = HOLD_INTERVAL_MS
  /\ UNCHANGED arrowDown
  /\ UNCHANGED <<lootVars, physVars, rollVars, partVars, initVars>>

handlePointerUp ==
  /\ pointerIsDown
  /\ inputsThisFrame < MaxInputsPerFrame
  /\ pointerIsDown' = FALSE
  /\ inputsThisFrame' = inputsThisFrame + 1
  /\ SetApp([App EXCEPT !.isHolding = FALSE])
  /\ holdInterval' = -1
  /\ UNCHANGED arrowDown
  /\ UNCHANGED <<lootVars, physVars, rollVars, partVars, initVars>>

\* handleKeydown for a fresh press of ArrowLeft (step -1) or ArrowRight (1)
handleKeydown(step) ==
  /\ ~arrowDown
  /\ inputsThisFrame < MaxInputsPerFrame
  /\ arrowDown' = TRUE
  /\ inputsThisFrame' = inputsThisFrame + 1
  /\ \E s \in {[App EXCEPT !.isHolding = TRUE]} :
       \E newIndex \in {IndexOf(DieButtons, currentDie) + step} :
         SetApp(IF ~canAcceptInput(s) THEN s
                ELSE IF newIndex < 1 \/ newIndex > Len(DieButtons)
                THEN addEnergy(s, ENERGY_PER_CLICK_MS)
                ELSE addEnergy(selectDie(s, DieButtons[newIndex]),
                               ENERGY_PER_CLICK_MS))
  /\ UNCHANGED <<holdInterval, pointerIsDown>>
  /\ UNCHANGED <<lootVars, physVars, rollVars, partVars, initVars>>

\* handleKeyup for the arrow key
handleKeyup ==
  /\ arrowDown
  /\ inputsThisFrame < MaxInputsPerFrame
  /\ arrowDown' = FALSE
  /\ inputsThisFrame' = inputsThisFrame + 1
  /\ SetApp([App EXCEPT !.isHolding = FALSE])
  /\ UNCHANGED <<holdInterval, pointerIsDown>>
  /\ UNCHANGED <<lootVars, physVars, rollVars, partVars, initVars>>

\* a click on a die button
dieButtonClick(sides) ==
  /\ inputsThisFrame < MaxInputsPerFrame
  /\ inputsThisFrame' = inputsThisFrame + 1
  /\ SetApp(selectDie(App, sides))
  /\ UNCHANGED <<holdInterval, pointerIsDown, arrowDown>>
  /\ UNCHANGED <<lootVars, physVars, rollVars, partVars, initVars>>

NextApp ==
  \/ AnimationFrame
  \/ MissTimeout
  \/ LootTimeout
  \/ HoldIntervalFires
  \/ animationiteration
  \/ handlePointerDown
  \/ handlePointerUp
  \/ \E step \in {-1, 1} : handleKeydown(step)
  \/ handleKeyup
  \/ \E i \in 1..Len(DieButtons) : dieButtonClick(DieButtons[i])

SpecApp == Init /\ [][NextApp]_vars

----------------------------------------------------------------------------
(* The game state machine of app.js *)

\* the transitions the state machine is documented to have
StatedTransitions ==
  {<<IDLE, RAMPING>>, <<RAMPING, IDLE>>, <<RAMPING, RAMPED>>,
   <<RAMPED, RAMPING>>, <<RAMPED, LOOT_RESOLUTION>>,
   <<LOOT_RESOLUTION, IDLE>>, <<LOOT_RESOLUTION, RAMPING>>}

\* C26: setState changes gameState exactly for the seven stated pairs and
\* returns true then; for every other pair it returns false and leaves
\* gameState as it was.  Every setState call a handler made obeyed this, and
\* gameState is where the last successful call put it, so gameState moves
\* only along the stated edges and never from RAMPED straight to IDLE.
C26_OnlyStatedTransitions ==
  /\ \A g \in GameState, n \in GameState :
       \E r \in {setState([App EXCEPT !.gameState = g], n)} :
         IF <<g, n>> \in StatedTransitions
         THEN r.gameState = n /\ r.transitions[1].returned
         ELSE r.gameState = g /\ ~r.transitions[1].returned
  /\ \A i \in DOMAIN transitions :
       /\ transitions[i].returned
            <=> <<transitions[i].from, transitions[i].to>>
                  \in StatedTransitions
       /\ i < Len(transitions) =>
            transitions[i+1].from =
              (IF transitions[i].returned
               THEN transitions[i].to ELSE transitions[i].from)
  /\ transitions # <<>> =>
       gameState =
         (IF transitions[Len(transitions)].returned
          THEN transitions[Len(transitions)].to
          ELSE transitions[Len(transitions)].from)

\* a miss was interrupted by input: the handler left LOOT_RESOLUTION through
\* IDLE and entered RAMPING
C26_MissInterrupted ==
  /\ Len(transitions) = 2
  /\ transitions[1].from = LOOT_RESOLUTION
  /\ transitions[1].to = IDLE
  /\ transitions[2].to = RAMPING
  /\ gameState = RAMPING

\* C27: while gameState is RAMPED, rampedMax is currentDie + 1
C27_RampedMaxIsDiePlusOne ==
  gameState = RAMPED => rampedMax = currentDie + 1

\* the entry of list cs that owns body b
CubeOf(cs, b) == cs[CHOOSE k \in 1..Len(cs) : cs[k].body = b]

\* C31: a cube whose poppingAt is set keeps that value, unassigned, in every
\* step that leaves the cube in the list, whichever of the collision drain
\* and the settle check set it.
C31_PoppingAtSetOnce ==
  [][\A b \in CubeBodies(cubes) \cap CubeBodies(cubes') :
       CubeOf(cubes, b).popping =>
         /\ CubeOf(cubes', b).popping
         /\ CubeOf(cubes', b).poppingAt = CubeOf(cubes, b).poppingAt
         /\ CubeOf(cubes', b).popWrites = 1]_vars

\* one cube was set popping by a floor collision and another by the settle
\* check, and frames have run over both since
C31_BothWritersActed ==
  /\ \E i \in 1..Len(cubes) : cubes[i].poppingAt = "delayed"
  /\ \E i \in 1..Len(cubes) : cubes[i].poppingAt = "now"
  /\ impacts = <<>>

\* C32: the cube count (getCubeCount returns the length of the cube list)
\* does not decrease in a step taken while the Goodbye Sequence is inactive
\* and does not increase in a step taken while it is active; a cube that
\* leaves the list was popping, left during an active sequence, and left in
\* a frame that found its pop animation complete.
C32_CountMonotone ==
  [][/\ ~goodbyeMode => Len(cubes') >= Len(cubes)
     /\ goodbyeMode => Len(cubes') <= Len(cubes)
     /\ \A b \in CubeBodies(cubes) \ CubeBodies(cubes') :
          goodbyeMode /\ CubeOf(cubes, b).popping
     /\ \A e \in FrameElapsed, a \in AboveReports, ev \in EventReports,
           s \in SlowReports, f \in FinishedReports :
          animate(e, a, ev, s, f) =>
            CubeBodies(cubes) \ CubeBodies(cubes')
              \subseteq {cubes[i].body : i \in f \cap (1..Len(cubes))}]_vars

\* a sequence is active and has removed one of two cubes
C32_OneCubeLeft ==
  /\ goodbyeMode /\ goodbyeGravityRestored
  /\ nextBody = 3 /\ Len(cubes) = 1 /\ Cardinality(bodies) = 1

\* C33: when resize returns, a cube that was beyond a boundary of the new
\* bounds is RESIZE_INSET px inside every boundary it was beyond and has zero
\* velocity, its position on an axis it was within is kept, and a cube within
\* the bounds keeps position and velocity; a second pass over the result
\* changes nothing, so nothing is left for later frames.
C33_ResizeClampsOnce ==
  resizeIn # NoResize =>
    LET left == SCREEN_EDGE_PADDING
        right == resizeIn.innerWidth - SCREEN_EDGE_PADDING
        top == SCREEN_EDGE_PADDING
        floor == resizeIn.bottom
        pxX == (resizeIn.x * PIXELS_PER_METER) \div PosScale
        pxY == (resizeIn.y * PIXELS_PER_METER) \div PosScale
        outside == pxX < left \/ pxX > right \/ pxY < top \/ pxY > floor
    IN  /\ pxX < left =>
              resizeOut.x * PIXELS_PER_METER = (left + 20) * PosScale
        /\ pxX > right =>
              resizeOut.x * PIXELS_PER_METER = (right - 20) * PosScale
        /\ pxY < top =>
              resizeOut.y * PIXELS_PER_METER = (top + 20) * PosScale
        /\ pxY > floor =>
              resizeOut.y * PIXELS_PER_METER = (floor - 20) * PosScale
        /\ (pxX >= left /\ pxX <= right) => resizeOut.x = resizeIn.x
        /\ (pxY >= top /\ pxY <= floor) => resizeOut.y = resizeIn.y
        /\ outside => (resizeOut.vx = 0 /\ resizeOut.vy = 0)
        /\ ~outside => resizeOut = resizeIn
        /\ resizeCube([x |-> resizeOut.x, y |-> resizeOut.y],
                      [x |-> resizeOut.vx, y |-> resizeOut.vy],
                      resizeIn.innerWidth, resizeIn.bottom)
             = [x |-> resizeOut.x, y |-> resizeOut.y,
                vx |-> resizeOut.vx, vy |-> resizeOut.vy]

\* a moving cube beyond the right boundary and the floor of a narrowed window
\* was resized
C33_CornerCubeResized ==
  /\ resizeIn.innerWidth = 60 /\ resizeIn.bottom = 40
  /\ resizeIn.x = 180 /\ resizeIn.y = 120
  /\ resizeIn.vx = 6 /\ resizeIn.vy = 4
  /\ resizeOut.x = 60 /\ resizeOut.y = 40
  /\ lastReader = "resize"

\* the number of entries of pool that hold object id
Held(pool, id) == Cardinality({k \in 1..Len(pool) : pool[k] = id})

\* a frame of delta took list a and pool p to a2 and p2: every object of a
\* aged by delta once, the expired ones left the list and entered the pool
\* once, the others stayed, and nothing else was released
SweptOnce(a, p, a2, p2, delta) ==
  LET expired == {i \in 1..Len(a) : a[i].life - delta <= 0}
  IN  /\ \A i \in 1..Len(a) :
            IF i \in expired
            THEN /\ \A j \in 1..Len(a2) : a2[j].id # a[i].id
                 /\ Held(p2, a[i].id) = Held(p, a[i].id) + 1
            ELSE /\ Cardinality({j \in 1..Len(a2) : a2[j].id = a[i].id}) = 1
                 /\ \E j \in 1..Len(a2) :
                      a2[j] = [id |-> a[i].id, life |-> a[i].life - delta]
                 /\ Held(p2, a[i].id) = Held(p, a[i].id)
      /\ \A j \in 1..Len(a2) : a2[j].life > 0
      /\ Len(a2) = Len(a) - Cardinality(expired)
      /\ Len(p2) = Len(p) + Cardinality(expired)

\* C34: an animation frame of particles.js ages every particle and scanline
\* that was active at its start exactly once, the one swapped into a freed slot
\* included; when it ends no active object has life <= 0, and every object
\* that expired has been released to its pool exactly once.
C34_FrameSweepsOnce ==
  [][\A d \in ParticleDeltas :
       ParticleFrame(d) =>
         /\ SweptOnce(particles, particlePool, particles', particlePool', d)
         /\ SweptOnce(scanlines, scanlinePool, scanlines', scanlinePool',
                      d)]_vars

\* of three sparkles the first expired, the last was swapped into its slot and
\* aged there, and the second expired after it
C34_SwappedInProcessed ==
  /\ particles = <<[id |-> 3, life |-> 1]>>
  /\ particlePool = <<1, 2>>
  /\ animationId

\* the pending timers of one kind
Pending(kind) == {i \in 1..Len(timers) : timers[i].kind = kind}

\* C35: dropsInFlight is never negative and is the number of drops whose
\* stagger timer has fired and whose settle timer has not; only those two
\* callbacks change it, the first by +1 and the second by -1.
C35_InFlightCountsUnsettled ==
  /\ [](dropsInFlight >= 0 /\ dropsInFlight = Cardinality(Pending("settle")))
  /\ [][dropsInFlight' # dropsInFlight =>
          /\ timers # <<>>
          /\ \/ /\ Head(timers).kind = "drop"
                /\ dropsInFlight' = dropsInFlight + 1
                /\ UNCHANGED <<lootQueue, calls>>
             \/ /\ Head(timers).kind = "settle"
                /\ dropsInFlight' = dropsInFlight - 1
                /\ UNCHANGED calls]_vars

\* two drops are in flight while a third is still waiting for its stagger
\* timer
C35_TwoInFlight ==
  /\ dropsInFlight = 2
  /\ Cardinality(Pending("settle")) = 2
  /\ Pending("drop") # {}

\* the pending stagger timers of batch b in timer list tq
DropsOf(tq, b) == {i \in 1..Len(tq) : tq[i].kind = "drop" /\ tq[i].batch = b}

\* C36: spawnConsolationLoot is not gated by the in-flight counter: whatever
\* dropsInFlight is and whatever drops of other batches are still waiting,
\* the call schedules all of its drops, the first without delay, and leaves
\* lootQueue and the counter as they were.
C36_ConsolationNotGated ==
  [][\A n \in SchedTrashCounts, z \in BOOLEAN :
       spawnConsolationLoot(n, z) =>
         /\ Cardinality(DropsOf(timers', nextBatch)) = n + (IF z THEN 1 ELSE 0)
         /\ \E i \in DropsOf(timers', nextBatch) : timers'[i].rem = 0
         /\ DropsOf(timers, nextBatch) = {}
         /\ \A b \in 1..(nextBatch - 1) :
              Cardinality(DropsOf(timers', b)) = Cardinality(DropsOf(timers, b))
         /\ Len(timers') >= Len(timers) + n
         /\ lootQueue' = lootQueue
         /\ dropsInFlight' = dropsInFlight]_vars

\* a consolation batch was scheduled, none of its drops fired yet, while a
\* drop is in flight, an earlier batch still has a drop waiting and a loot
\* request is queued
C36_ConsolationBesideOthers ==
  /\ lastBatch.kind = "consolation"
  /\ Cardinality(DropsOf(timers, lastBatch.id)) = Len(lastBatch.drops)
  /\ dropsInFlight > 0
  /\ \E b \in 1..(lastBatch.id - 1) : DropsOf(timers, b) # {}
  /\ lootQueue # <<>>

\* C37: in exact arithmetic no frame runs more than three substeps: the
\* accumulator enters a frame below one timestep and gains at most three, so
\* the loop always ends because less than a timestep is left, never because
\* of the cap of MAX_SUBSTEPS, and the leftover is kept, never discarded.
C37_AtMostThreeSubsteps ==
  [][\A e \in StepElapsed :
       animate(e, {}, <<>>, {}, {}) =>
         \E r \in {StepLoop(accumulator + FrameDelta(e), 0)} :
           /\ accumulator + FrameDelta(e) < MAX_SUBSTEPS * PHYSICS_TIMESTEP
           /\ r.steps <= 3 /\ r.steps < MAX_SUBSTEPS
           /\ r.acc < PHYSICS_TIMESTEP
           /\ frameSteps' = r.steps
           /\ accumulator' = r.acc
           /\ accumulator' # 0 \/ r.acc = 0]_vars

\* the fullest frame: three substeps ran, all but one unit of a timestep is
\* carried over, and the frame is drawn at that fraction
C37_FullestFrame ==
  /\ frameSteps = 3
  /\ frameAdvanced = 3 * PHYSICS_TIMESTEP
  /\ accumulator = PHYSICS_TIMESTEP - 1
  /\ frameAlpha = PHYSICS_TIMESTEP - 1
  /\ cubes = <<>>

\* the cubes of list cs whose pop has started
PoppingCubes(cs) ==
  {i \in 1..Len(cs) : cs[i].popping \/ cs[i].poppingAt # "unset"}

\* C38: a cube has poppingAt set, and is marked for removal, only while the
\* Goodbye Sequence is active and its gravity has been restored: no cube is
\* popping in NORMAL or RISING, a frame removes cubes only in that phase, and
\* every cube present when a sequence starts has poppingAt unset.
C38_PoppingOnlyAfterRestore ==
  /\ [](PoppingCubes(cubes) # {} => goodbyeMode /\ goodbyeGravityRestored)
  /\ [][/\ (~goodbyeMode /\ goodbyeMode') => PoppingCubes(cubes) = {}
        /\ (\E b \in CubeBodies(cubes) : b \notin CubeBodies(cubes')) =>
             goodbyeMode /\ goodbyeGravityRestored
        /\ \A b \in CubeBodies(cubes') :
             (b \notin CubeBodies(cubes) \/ ~CubeOf(cubes, b).popping) =>
               (CubeOf(cubes', b).popping =>
                  goodbyeMode' /\ goodbyeGravityRestored')]_vars

\* after the second triggerGoodbye call started a sequence and gravity was
\* restored, one cube is popping and the other is not yet
C38_PoppingInSecondSequence ==
  /\ goodbyes = 2
  /\ goodbyeReturn = "true"
  /\ goodbyeMode /\ goodbyeGravityRestored
  /\ Len(cubes) = 2
  /\ Cardinality(PoppingCubes(cubes)) = 1

\* how often the last handler called effect f
Calls(f) == Cardinality({k \in 1..Len(effects) : effects[k] = f})

HitShown == gameState = LOOT_RESOLUTION /\ lootResult = "hit"

\* C39: a roll that finishes in RAMPED with result > currentDie leads to
\* exactly one spawnLoot call, made by the loot timeout while the state is
\* still LOOT_RESOLUTION with lootResult 'hit'; a roll that finishes in RAMPED
\* with a lower result calls spawnConsolationLoot exactly once, at once; no
\* input and no other timer suppresses or duplicates the delayed call.
C39_OneSpawnPerResolution ==
  \* a loot timeout is pending only while the hit is shown, and only one
  /\ [](lootTimers # {} => HitShown /\ Cardinality(lootTimers) = 1)
  \* while the hit is shown the timeout is pending or has already fired
  /\ [](HitShown =>
          \/ lootTimers # {}
          \/ settlingAnimationFrame <= SETTLING_DURATION_MS - WIN_LOOT_DELAY_MS)
  /\ [](HitShown => settlingAnimationFrame >= 0)
  /\ [][/\ (animationiteration /\ gameState = RAMPED) =>
             IF pendingFinish.result > currentDie
             THEN /\ HitShown'
                  /\ lootTimers = {} /\ lootTimers' = {WIN_LOOT_DELAY_MS}
                  /\ Calls("spawnLoot")' = 0
                  /\ Calls("spawnConsolationLoot")' = 0
             ELSE /\ gameState' = LOOT_RESOLUTION /\ lootResult' = "miss"
                  /\ Calls("spawnConsolationLoot")' = 1
                  /\ Calls("spawnLoot")' = 0
                  /\ lootTimers' = lootTimers
        \* the timeout always finds the hit still shown and spawns once
        /\ LootTimeout =>
             /\ HitShown /\ HitShown'
             /\ Calls("spawnLoot")' = 1
             /\ lootTimers' = {}
        \* a pending timeout goes away only by firing
        /\ (lootTimers # {} /\ lootTimers' = {}) => LootTimeout
        \* nothing else spawns loot
        /\ (effects' # effects /\ Calls("spawnLoot")' > 0) => LootTimeout
        /\ (effects' # effects /\ Calls("spawnConsolationLoot")' > 0) =>
             (animationiteration /\ gameState = RAMPED
                /\ pendingFinish.result <= currentDie)]_vars

\* the loot timeout has just spawned the loot of a hit although the pointer
\* was pressed while the hit was shown
C39_LootSpawnedDespiteInput ==
  /\ HitShown
  /\ effects = <<"spawnLoot">>
  /\ pointerIsDown /\ ~isHolding
  /\ lootTimers = {}

\* animation frames, animationiteration events and timers keep firing
FairSpecApp ==
  /\ SpecApp
  /\ WF_vars(AnimationFrame)
  /\ WF_vars(animationiteration)
  /\ WF_vars(MissTimeout)
  /\ WF_vars(LootTimeout)
  /\ WF_vars(HoldIntervalFires)

\* a pointer, key or die-button event is handled
InputEvent ==
  \/ handlePointerDown
  \/ handlePointerUp
  \/ \E step \in {-1, 1} : handleKeydown(step)
  \/ handleKeyup
  \/ \E i \in 1..Len(DieButtons) : dieButtonClick(DieButtons[i])

AtRest == gameState = IDLE /\ energy = 0

====
